---- MODULE Spec2Model ----
(***************************************************************************)
(* A model of the replicated state machine core of etcd (etcdserver):      *)
(* the request-ID generator, the wait registry, the cluster view, the      *)
(* apply loop of EtcdServer.run, the gateway (Do / configure) and the      *)
(* consensus driver loop raftNode.run.                                     *)
(*                                                                         *)
(* The module holds several specifications over one set of variables.      *)
(* Each specification drives one subsystem and leaves the variables of     *)
(* the others at their initial values:                                     *)
(*   SpecWait    pkg/wait  List.Register / List.Trigger                    *)
(*   SpecGen     idutil    Generator.Next under concurrent callers         *)
(*   SpecApply   EtcdServer.run / apply / applyConfChange / Cluster        *)
(*   SpecDo      EtcdServer.Do / configure against the apply loop          *)
(*   SpecDriver  raftNode.run against EtcdServer.run                       *)
(***************************************************************************)
EXTENDS Integers, Sequences, FiniteSets, TLC

(***************************************************************************)
(* Bounds of the model (not program constants).                            *)
(***************************************************************************)
\* number of distinct request ids used against the wait registry
MaxWaitID == 2
\* number of channels Register may create in one run of SpecWait
MaxChans == 2
\* number of tasks calling Register / Trigger concurrently
NumWaitProcs == 2
\* entries committed to the log after the server started
MaxNewEntries == 1
\* batches that lie entirely at or below the applied index
MaxReplays == 1
\* EtcdServer.snapCount (ServerConfig.SnapCount)
SnapCount == 2
\* width of the uint64 indices of the run loop
UintBits == 5
\* calls of Do / configure made against the server
MaxCalls == 2
\* Ready batches the raft node produces
MaxReady == 2
\* unstable entries and outbound messages carried by one Ready
MaxReadyItems == 1

NumStopCallers == 2
\* entries the WAL holds after its snapshot
MaxWalEntries == 3
\* width of the indices the snapshot goroutine computes with
CompactBits == 14
\* snapshot goroutines running at the same time
MaxTasks == 2
\* goroutines calling the methods of the raft node
NumNodeCallers == 2
\* calls each of them makes
MaxNodeCalls == 2

VARIABLES
  \* ---- wait.List (src/pkg/wait/wait.go) ----
  wm,        \* List.m : id -> channel (0 is the nil channel)
  chans,     \* the channels made by Register, in creation order
  wproc,     \* per task: where it stands inside Trigger
  wpanic,    \* a send on a closed channel / double close happened
  \* ---- idutil.Generator (src/etcdserver/server.go:911-941) ----
  gen,       \* [prefix, suffix]
  gmu,       \* Generator.mu : 0 when free, else the caller holding it
  gproc,     \* per caller: where it stands inside Next
  gids,      \* the ids returned so far, in the order of the increments
  \* ---- EtcdServer and its Cluster (server.go, part_000) ----
  srv,       \* the server state (see the record described below)
  running,   \* EtcdServer.run has not returned
  errorc,    \* number of errors buffered in EtcdServer.errorc (capacity 1)
  delayers,  \* stopWithDelay goroutines that have not yet fired
  \* ---- the consensus layer as seen by one member ----
  clog,      \* the committed log of the cluster
  refs,      \* refs[k+1]: a member that applied entries 1..k one at a time
  hist,      \* history of the apply loop: last applied entry index, whether
             \* an entry was applied out of order, the last batch handled
  \* ---- the gateway: EtcdServer.Do / configure (server.go:474-622) ----
  calls,     \* the calls made so far, each with its position
  pending,   \* proposals accepted by raft and not yet committed
  \* ---- raftNode.run and its peers (part_000:587-650) ----
  rnode,     \* the raft node: Readys produced, waiting for Advance, stopped
  drv,       \* the driver goroutine raftNode.run
  app,       \* EtcdServer.run as the driver sees it
  stable,    \* what Storage and raftStorage hold, by Ready number
  net,       \* the Readys whose messages were handed to the transport
  stoppers,  \* per caller of EtcdServer.Stop: where it stands
  \* ---- the start of a server (part_000:747-882, server.go:643-676) ----
  boot,      \* restartAsStandaloneNode: the WAL read and what is made of it
  pub,       \* EtcdServer.publish: where the goroutine stands
  \* ---- the snapshots of EtcdServer.run (server.go:423-433, 821-860) ----
  snp,       \* run by its blocking points, the snapshot goroutines, and the
             \* raft storage they work on
  \* ---- raft.node (src/raft/node.go) ----
  nd,        \* node.run: its local variables, the fields it writes, history
  ncalls     \* per caller of the node's methods: the call in hand

waitVars == <<wm, chans, wproc, wpanic>>
genVars == <<gen, gmu, gproc, gids>>
applyVars == <<srv, running, errorc, delayers, clog, refs, hist>>
doVars == <<calls, pending>>
driverVars == <<rnode, drv, app, stable, net, stoppers>>
startVars == <<boot, pub, snp, nd, ncalls>>
vars == <<wm, chans, wproc, wpanic, gen, gmu, gproc, gids,
          srv, running, errorc, delayers, clog, refs, hist,
          calls, pending, rnode, drv, app, stable, net, stoppers, boot, pub, snp, nd, ncalls>>
notWaitVars == <<genVars, applyVars, doVars, driverVars, startVars>>
notGenVars == <<waitVars, applyVars, doVars, driverVars, startVars>>
notApplyVars == <<waitVars, genVars, doVars, driverVars, startVars>>
notDriverVars == <<waitVars, genVars, applyVars, doVars, startVars>>

(***************************************************************************)
(* Helpers                                                                 *)
(***************************************************************************)
Max(a, b) == IF a >= b THEN a ELSE b

Min(a, b) == IF a <= b THEN a ELSE b

RECURSIVE Pow2(_)
Pow2(n) == IF n = 0 THEN 1 ELSE 2 * Pow2(n - 1)

(***************************************************************************)
(* pkg/wait: List                                                          *)
(*                                                                         *)
(* A channel is make(chan interface{}, 1).  buf is its buffer, closed its  *)
(* closed flag.  sent, got and first are history: the values ever sent on  *)
(* it, the values a receiver took from it, and the value of the first      *)
(* Trigger(id, .) that took the lock after the channel was registered.     *)
(***************************************************************************)
WaitIDs == 1..MaxWaitID

WaitProcs == 1..NumWaitProcs

\* the values handed to Trigger; "nil" is Go's nil interface value
WaitValues == {"nil", "x", "y"}

\* a channel made without a buffer holds no value
ChanUnbuffered == Len(<<>>)

ChanCap == 1

NoValue == "none"

NewChan(id) ==
  [id |-> id, buf |-> <<>>, closed |-> FALSE, sent |-> <<>>, got |-> <<>>,
   first |-> NoValue]

WaitIdleProc == [pc |-> "idle", ch |-> 0, x |-> "nil"]

WaitInit ==
  /\ wm = [i \in WaitIDs |-> 0]
  /\ chans = <<>>
  /\ wproc = [p \in WaitProcs |-> WaitIdleProc]
  /\ wpanic = FALSE

\* Register(id): under the lock, return the channel of id, making it first
\* when the map holds none.
RegisterChans(cs, m, id) ==
  IF m[id] = 0 THEN Append(cs, NewChan(id)) ELSE cs

RegisterMap(cs, m, id) ==
  IF m[id] = 0 THEN [m EXCEPT ![id] = Len(cs) + 1] ELSE m

Register(id) ==
  /\ ~wpanic
  /\ wm[id] # 0 \/ Len(chans) < MaxChans
  /\ chans' = RegisterChans(chans, wm, id)
  /\ wm' = RegisterMap(chans, wm, id)
  /\ UNCHANGED <<wproc, wpanic>>

\* history: every channel of id that no Trigger has claimed yet now has x as
\* the first value triggered after its registration
MarkFirst(cs, id, x) ==
  [c \in 1..Len(cs) |->
     IF cs[c].id = id /\ cs[c].first = NoValue
       THEN [cs[c] EXCEPT !.first = x] ELSE cs[c]]

\* a Trigger that forgets delete(w.m, id)
TriggerMapKeep(m, id) == m

\* Trigger, first half (w.l.Lock() .. w.l.Unlock()): ch := w.m[id]; delete(w.m, id)
TriggerMap(m, id) == [m EXCEPT ![id] = 0]

TriggerLock(p, id, x) ==
  /\ ~wpanic
  /\ wproc[p].pc = "idle"
  /\ wm' = TriggerMap(wm, id)
  /\ chans' = MarkFirst(chans, id, x)
  /\ wproc' = [wproc EXCEPT ![p] =
                 IF wm[id] = 0 THEN WaitIdleProc
                 ELSE [pc |-> "send", ch |-> wm[id], x |-> x]]
  /\ UNCHANGED wpanic

\* the send of Trigger's second half would block: the buffer is full
SendBlocks(c) == ~chans[c].closed /\ Len(chans[c].buf) >= ChanCap

\* Trigger, second half: if ch != nil { ch <- x; close(ch) }
TriggerSend(p) ==
  /\ ~wpanic
  /\ wproc[p].pc = "send"
  /\ LET c == wproc[p].ch IN
       /\ ~SendBlocks(c)
       /\ IF chans[c].closed
            THEN /\ wpanic' = TRUE
                 /\ UNCHANGED chans
            ELSE /\ chans' = [chans EXCEPT ![c].buf = Append(@, wproc[p].x),
                                           ![c].sent = Append(@, wproc[p].x),
                                           ![c].closed = TRUE]
                 /\ UNCHANGED wpanic
  /\ wproc' = [wproc EXCEPT ![p] = WaitIdleProc]
  /\ UNCHANGED wm

\* a holder of the receiver takes the buffered value: x := <-ch
Receive(c) ==
  /\ ~wpanic
  /\ c \in 1..Len(chans)
  /\ chans[c].buf # <<>>
  /\ chans' = [chans EXCEPT ![c].buf = Tail(@), ![c].got = Append(@, Head(chans[c].buf))]
  /\ UNCHANGED <<wm, wproc, wpanic>>

(***************************************************************************)
(* idutil.Generator                                                        *)
(*                                                                         *)
(* The widths are scaled: the id is PrefixBits + SuffixBits wide where the *)
(* code has 8 + 56; the arithmetic is the code's, modulo the word.         *)
(***************************************************************************)
\* width of the timestamp field (tsLen, 5 * 8 in the code)
TsBits == 2
\* width of the counter field (cntLen, 2 * 8 in the code)
CntBits == 1
\* width of the member prefix (1 byte in the code)
PrefixBits == 1
\* number of concurrent callers of Next
NumGenProcs == 2

tsLen == TsBits

cntLen == CntBits

suffixLen == tsLen + cntLen

\* the 64-bit word of the code, scaled
WordMod == Pow2(PrefixBits + suffixLen)

GenProcs == 1..NumGenProcs

\* a lowbit that masks nothing
lowbitAll(x, n) == x

\* lowbit(x, n) = x & (MaxUint64 >> (64 - n))
lowbit(x, n) == x % Pow2(n)

\* x | y for operands with disjoint bits, as in prefix | lowbit(suffix, suffixLen)
BitOrDisjoint(x, y) == x + y

\* NewGenerator(memberID, now)
NewGenerator(memberID, unixMilli) ==
  [prefix |-> (memberID * Pow2(suffixLen)) % WordMod,
   suffix |-> (lowbit(unixMilli, tsLen) * Pow2(cntLen)) % WordMod]

\* the id Next returns for a generator whose suffix was just incremented
GenID(g) == BitOrDisjoint(g.prefix, lowbit(g.suffix, suffixLen))

\* the number of Next calls the model follows: one past the wrap of the suffix
MaxNextCalls == Pow2(suffixLen) + 1

GenIdleProc == [pc |-> "idle", tmp |-> 0]

GenIdle ==
  /\ gen = NewGenerator(0, 0)
  /\ gmu = 0
  /\ gproc = [p \in GenProcs |-> GenIdleProc]
  /\ gids = <<>>

GenInit ==
  /\ \E memberID \in 0..(Pow2(PrefixBits) - 1), unixMilli \in 0..(Pow2(tsLen + 1) - 1) :
       gen = NewGenerator(memberID, unixMilli)
  /\ gmu = 0
  /\ gproc = [p \in GenProcs |-> GenIdleProc]
  /\ gids = <<>>

\* a Next that does not take the mutex
GenLockFree(p) == TRUE

\* g.mu.Lock() succeeds only when the mutex is free
GenLockGuard(p) == gmu = 0

\* Next: g.mu.Lock()
GenLock(p) ==
  /\ gproc[p].pc = "idle"
  /\ Len(gids) + Cardinality({q \in GenProcs : gproc[q].pc # "idle"}) < MaxNextCalls
  /\ GenLockGuard(p)
  /\ gmu' = p
  /\ gproc' = [gproc EXCEPT ![p].pc = "read"]
  /\ UNCHANGED <<gen, gids>>

\* Next: g.suffix++ is a load ...
GenRead(p) ==
  /\ gproc[p].pc = "read"
  /\ gproc' = [gproc EXCEPT ![p] = [pc |-> "write", tmp |-> gen.suffix]]
  /\ UNCHANGED <<gen, gmu, gids>>

\* ... and a store; then id := g.prefix | lowbit(g.suffix, suffixLen)
GenWrite(p) ==
  /\ gproc[p].pc = "write"
  /\ gen' = [gen EXCEPT !.suffix = (gproc[p].tmp + 1) % WordMod]
  /\ gids' = Append(gids, GenID(gen'))
  /\ gproc' = [gproc EXCEPT ![p] = [pc |-> "unlock", tmp |-> 0]]
  /\ UNCHANGED gmu

\* Next: the deferred g.mu.Unlock() and the return
GenUnlock(p) ==
  /\ gproc[p].pc = "unlock"
  /\ gmu' = IF gmu = p THEN 0 ELSE gmu
  /\ gproc' = [gproc EXCEPT ![p] = GenIdleProc]
  /\ UNCHANGED <<gen, gids>>

\* Next() as one step, for callers that are modelled elsewhere
GenNext(g) == [g EXCEPT !.suffix = (@ + 1) % WordMod]

(***************************************************************************)
(* The key-value store (package store; its operations are used through    *)
(* their contracts).  A store holds the leaf nodes (path -> value and      *)
(* modified index), the directories that exist, and CurrentIndex, which    *)
(* every successful write increments.  Paths are sequences of segments.    *)
(***************************************************************************)
MemberIDs == {1, 2, 3}

\* raft.None
None == 0

URLs == {"u1", "u2", "u3"}

\* types.ID.String(): the hexadecimal form of an id
IDString(id) == CASE id = 1 -> "1" [] id = 2 -> "2" [] id = 3 -> "3" [] OTHER -> "0"

\* mustParseMemberIDFromKey(key): the id parsed from the last segment of key
mustParseMemberIDFromKey(key) ==
  LET seg == key[Len(key)] IN
    CASE seg = "1" -> 1 [] seg = "2" -> 2 [] seg = "3" -> 3 [] OTHER -> None

\* json.Marshal(RaftAttributes{PeerURLs})
MarshalRaftAttributes(urls) ==
  CASE urls = {} -> "[]"
    [] urls = {"u1"} -> "[u1]"
    [] urls = {"u2"} -> "[u2]"
    [] urls = {"u3"} -> "[u3]"
    [] OTHER -> "[u1,u2]"

\* json.Unmarshal into RaftAttributes
UnmarshalRaftAttributes(b) ==
  CASE b = "[]" -> {}
    [] b = "[u1]" -> {"u1"}
    [] b = "[u2]" -> {"u2"}
    [] b = "[u3]" -> {"u3"}
    [] OTHER -> {"u1", "u2"}

StoreAdminPrefix == <<"0">>

StoreKeysPrefix == <<"1">>

storeMembersPrefix == StoreAdminPrefix \o <<"members">>

storeRemovedMembersPrefix == StoreAdminPrefix \o <<"removed_members">>

raftAttributesSuffix == "raftAttributes"

attributesSuffix == "attributes"

\* memberStoreKey(id) = /0/members/<id>
memberStoreKey(id) == storeMembersPrefix \o <<IDString(id)>>

\* removedMemberStoreKey(id) = /0/removed_members/<id>
removedMemberStoreKey(id) == storeRemovedMembersPrefix \o <<IDString(id)>>

\* MemberAttributesStorePath(id) = /0/members/<id>/attributes
MemberAttributesStorePath(id) == memberStoreKey(id) \o <<attributesSuffix>>

MemberRaftAttributesStorePath(id) == memberStoreKey(id) \o <<raftAttributesSuffix>>

IsPrefix(p, q) == Len(p) <= Len(q) /\ SubSeq(q, 1, Len(p)) = p

ProperPrefixes(p) == {SubSeq(p, 1, n) : n \in 1..(Len(p) - 1)}

\* store.New(StoreAdminPrefix, StoreKeysPrefix)
StoreNew ==
  [nodes |-> <<>>, dirs |-> {StoreAdminPrefix, StoreKeysPrefix}, index |-> 0]

NodeExists(st, p) == p \in DOMAIN st.nodes \/ p \in st.dirs

Ok(st, val) == [st |-> st, err |-> "nil", val |-> val]

Fail(st, err) == [st |-> st, err |-> err, val |-> ""]

\* write leaf p := val, creating the directories above it
PutNode(st, p, val) ==
  LET i == st.index + 1
      leaf == [val |-> val, mi |-> i]
  IN [nodes |-> [q \in (DOMAIN st.nodes) \cup {p} |-> IF q = p THEN leaf ELSE st.nodes[q]],
      dirs |-> st.dirs \cup ProperPrefixes(p),
      index |-> i]

\* a leaf cannot be written below a leaf
UnderLeaf(st, p) == \E q \in ProperPrefixes(p) : q \in DOMAIN st.nodes

\* Create(path, dir=false, val, unique=false, expire)
StoreCreate(st, p, val) ==
  IF NodeExists(st, p) THEN Fail(st, "NodeExist")
  ELSE IF UnderLeaf(st, p) THEN Fail(st, "NotDir")
  ELSE Ok(PutNode(st, p, val), val)

\* Create(path, dir=false, val, unique=true, expire): the key is path/<next index>
StoreCreateUnique(st, p, val) ==
  StoreCreate(st, p \o <<"#">>, val)

\* Set(path, dir=false, val, expire)
StoreSet(st, p, val) ==
  IF p \in st.dirs THEN Fail(st, "NotFile")
  ELSE IF UnderLeaf(st, p) THEN Fail(st, "NotDir")
  ELSE Ok(PutNode(st, p, val), val)

\* Update(path, val, expire)
StoreUpdate(st, p, val) ==
  IF ~NodeExists(st, p) THEN Fail(st, "KeyNotFound")
  ELSE IF p \in st.dirs THEN Fail(st, "NotFile")
  ELSE Ok(PutNode(st, p, val), val)

\* the comparison of CompareAndSwap / CompareAndDelete
CompareOk(n, prevValue, prevIndex) ==
  /\ prevValue = "" \/ n.val = prevValue
  /\ prevIndex = 0 \/ n.mi = prevIndex

\* CompareAndSwap(path, prevValue, prevIndex, val, expire)
StoreCompareAndSwap(st, p, prevValue, prevIndex, val) ==
  IF ~NodeExists(st, p) THEN Fail(st, "KeyNotFound")
  ELSE IF p \in st.dirs THEN Fail(st, "NotFile")
  ELSE IF ~CompareOk(st.nodes[p], prevValue, prevIndex) THEN Fail(st, "TestFailed")
  ELSE Ok(PutNode(st, p, val), val)

RemoveTree(st, p) ==
  [nodes |-> [q \in {r \in DOMAIN st.nodes : ~IsPrefix(p, r)} |-> st.nodes[q]],
   dirs |-> {d \in st.dirs : ~IsPrefix(p, d)},
   index |-> st.index + 1]

DirEmpty(st, p) ==
  /\ \A q \in DOMAIN st.nodes : ~IsPrefix(p, q)
  /\ \A d \in st.dirs : d = p \/ ~IsPrefix(p, d)

\* Delete(path, dir, recursive)
StoreDelete(st, p, dir, recursive) ==
  IF ~NodeExists(st, p) THEN Fail(st, "KeyNotFound")
  ELSE IF p \in st.dirs /\ ~(dir \/ recursive) THEN Fail(st, "NotFile")
  ELSE IF p \in st.dirs /\ ~recursive /\ ~DirEmpty(st, p) THEN Fail(st, "DirNotEmpty")
  ELSE Ok(RemoveTree(st, p), "")

\* CompareAndDelete(path, prevValue, prevIndex)
StoreCompareAndDelete(st, p, prevValue, prevIndex) ==
  IF ~NodeExists(st, p) THEN Fail(st, "KeyNotFound")
  ELSE IF p \in st.dirs THEN Fail(st, "NotFile")
  ELSE IF ~CompareOk(st.nodes[p], prevValue, prevIndex) THEN Fail(st, "TestFailed")
  ELSE Ok(RemoveTree(st, p), "")

\* Get(path, recursive, sorted)
StoreGet(st, p) ==
  IF ~NodeExists(st, p) THEN Fail(st, "KeyNotFound")
  ELSE IF p \in st.dirs THEN Ok(st, "")
  ELSE Ok(st, st.nodes[p].val)

\* Save / SaveNoCopy: the serialized store, a set of records; Recovery reads
\* it back
StoreSave(st) ==
  [index |-> st.index,
   dirs |-> st.dirs,
   leaves |-> {[key |-> p, val |-> st.nodes[p].val, mi |-> st.nodes[p].mi] : p \in DOMAIN st.nodes}]

StoreRecovery(data) ==
  [nodes |-> [p \in {l.key : l \in data.leaves} |->
                LET l == CHOOSE x \in data.leaves : x.key = p IN [val |-> l.val, mi |-> l.mi]],
   dirs |-> data.dirs,
   index |-> data.index]

\* Clone(): a copy that later writes to the store do not reach
StoreClone(st) == st

(***************************************************************************)
(* The server state as one record, so that the handlers of the apply loop  *)
(* compose as operators:                                                   *)
(*   id            EtcdServer.id                                           *)
(*   store         EtcdServer.store (shared with Cluster.store)            *)
(*   members       Cluster.members   (cache)                               *)
(*   removed       Cluster.removed   (cache)                               *)
(*   cindex        Cluster.index                                           *)
(*   cid           Cluster.id                                              *)
(*   peers         the peers of Cluster.transport                          *)
(*   raftNodes     the voters of the raft node; noProp: its propc is nil   *)
(*   appliedi, snapi, confState   locals of EtcdServer.run                 *)
(*   rindex        raftNode.index                                          *)
(*   panicked      the process has panicked                                *)
(*   trig          the Trigger calls of the batch being applied            *)
(*   snaps         snapshots handed to raftNode storage by snapshot()      *)
(*   confCalls, confNode   the calls of node.ApplyConfChange and the       *)
(*                 NodeID of the last one                                  *)
(*   selfRemoved   a valid Remove of the local member has been applied     *)
(*   msg           the last raft message handed to Process: its sender,    *)
(*                 what Process did with it, and whether a Remove of the   *)
(*                 sender had been applied here by then                    *)
(***************************************************************************)
Panic(S) == [S EXCEPT !.panicked = TRUE]

\* json.Marshal(Attributes) as published by a member
MarshalAttributes(attr) == IF attr = "n1" THEN "{n1}" ELSE "{}"

\* json.Unmarshal into Attributes: fails on a value that is not JSON
UnmarshalAttributes(b) ==
  CASE b = "{n1}" -> [ok |-> TRUE, attr |-> "n1"]
    [] b = "{}" -> [ok |-> TRUE, attr |-> ""]
    [] OTHER -> [ok |-> FALSE, attr |-> ""]

NewMember(id, urls) == [ID |-> id, PeerURLs |-> urls, Attributes |-> ""]

MemberDirs(st) == {d \in st.dirs : Len(d) = 3 /\ IsPrefix(storeMembersPrefix, d)}

\* nodeToMember(n): the member stored under directory d
nodeToMemberOk(st, d) ==
  /\ d \o <<raftAttributesSuffix>> \in DOMAIN st.nodes
  /\ d \o <<attributesSuffix>> \in DOMAIN st.nodes
       => UnmarshalAttributes(st.nodes[d \o <<attributesSuffix>>].val).ok

nodeToMember(st, d) ==
  [ID |-> mustParseMemberIDFromKey(d),
   PeerURLs |-> UnmarshalRaftAttributes(st.nodes[d \o <<raftAttributesSuffix>>].val),
   Attributes |-> IF d \o <<attributesSuffix>> \in DOMAIN st.nodes
                  THEN UnmarshalAttributes(st.nodes[d \o <<attributesSuffix>>].val).attr
                  ELSE ""]

\* membersFromStore(st): ok is FALSE where the code panics
membersFromStore(st) ==
  IF storeMembersPrefix \notin st.dirs
  THEN [members |-> <<>>, removed |-> {}, ok |-> TRUE]
  ELSE IF \E d \in MemberDirs(st) : ~nodeToMemberOk(st, d)
  THEN [members |-> <<>>, removed |-> {}, ok |-> FALSE]
  ELSE [members |-> [id \in {mustParseMemberIDFromKey(d) : d \in MemberDirs(st)} |->
                       nodeToMember(st, memberStoreKey(id))],
        removed |-> IF storeRemovedMembersPrefix \notin st.dirs THEN {}
                    ELSE {mustParseMemberIDFromKey(q) :
                            q \in {r \in DOMAIN st.nodes : IsPrefix(storeRemovedMembersPrefix, r)}},
        ok |-> TRUE]

MemberURLs(members, ids) == UNION {members[i].PeerURLs : i \in ids}

\* the URL check of ValidateConfigurationChange that ignores the check
ClashNever(members, others, urls) == FALSE

\* some PeerURL of the proposed member is in use by one of the others
PeerURLClash(members, others, urls) == urls \cap MemberURLs(members, others) # {}

\* the members an Update is compared with, the target included
UpdateOthersAll(ids, id) == ids

\* case ConfChangeUpdateNode: if m.ID == id { continue }
UpdateOthers(ids, id) == ids \ {id}

\* Cluster.ValidateConfigurationChange(cc): the error, or "panic"
ValidateWith(ms, ids, id, cc) ==
  IF ~ms.ok THEN "panic"
  ELSE IF id \in ms.removed THEN "ErrIDRemoved"
  ELSE CASE cc.Type = "AddNode" ->
              IF id \in ids THEN "ErrIDExists"
              ELSE IF PeerURLClash(ms.members, ids, cc.Context.PeerURLs) THEN "ErrPeerURLexists"
              ELSE "nil"
         [] cc.Type = "RemoveNode" ->
              IF id \notin ids THEN "ErrIDNotFound" ELSE "nil"
         [] cc.Type = "UpdateNode" ->
              IF id \notin ids THEN "ErrIDNotFound"
              ELSE IF PeerURLClash(ms.members, UpdateOthers(ids, id), cc.Context.PeerURLs)
                THEN "ErrPeerURLexists"
              ELSE "nil"
         [] OTHER -> "panic"

ValidateAgainst(ms, cc) == ValidateWith(ms, DOMAIN ms.members, cc.NodeID, cc)

ValidateConfigurationChange(st, cc) == ValidateAgainst(membersFromStore(st), cc)

\* rafthttp.Transporter: AddPeer, RemovePeer, UpdatePeer, RemoveAllPeers
AddPeer(peers, id, urls) ==
  IF id \in DOMAIN peers THEN peers
  ELSE [i \in (DOMAIN peers) \cup {id} |-> IF i = id THEN urls ELSE peers[i]]

RemovePeer(peers, id) == [i \in (DOMAIN peers) \ {id} |-> peers[i]]

UpdatePeer(peers, id, urls) ==
  IF id \in DOMAIN peers THEN [peers EXCEPT ![id] = urls] ELSE peers

PeersOf(members) == [i \in DOMAIN members |-> members[i].PeerURLs]

\* sort.Sort(types.IDSlice(ids))
RECURSIVE SortIDs(_)
SortIDs(ids) ==
  IF ids = {} THEN <<>>
  ELSE <<CHOOSE x \in ids : \A y \in ids : x <= y>>
         \o SortIDs(ids \ {CHOOSE x \in ids : \A y \in ids : x <= y})

\* Cluster.MemberIDs(): the ids of the cache in ascending order
SortedMemberIDs(members) == SortIDs(DOMAIN members)

\* the first 8 bytes of sha1.Sum over the big-endian encoding of the ids: a
\* digest that tells any two id sequences of the model apart
RECURSIVE Sha1Prefix(_)
Sha1Prefix(ids) ==
  IF ids = <<>> THEN 0
  ELSE Sha1Prefix(SubSeq(ids, 1, Len(ids) - 1)) * (Cardinality(MemberIDs) + 1)
         + ids[Len(ids)]

\* Cluster.genID(): the id computed for a cache
genID(members) == Sha1Prefix(SortedMemberIDs(members))

\* Cluster.SetID(id)
SetID(S, id) == [S EXCEPT !.cid = id]

\* delete(c.members, id)
CacheDelete(members, id) == [i \in (DOMAIN members) \ {id} |-> members[i]]

CachePut(members, m) ==
  [i \in (DOMAIN members) \cup {m.ID} |-> IF i = m.ID THEN m ELSE members[i]]

\* an AddMember that updates the cache whatever the index
AddMemberAlways(S, m, index, r) ==
  IF r.err # "nil" THEN Panic(S)
  ELSE [S EXCEPT !.store = r.st,
                 !.members = CachePut(S.members, m),
                 !.peers = AddPeer(S.peers, m.ID, m.PeerURLs),
                 !.cindex = index]

\* Cluster.AddMember(m, index)
AddMemberWith(S, m, index, r) ==
  IF r.err # "nil" THEN Panic(S)
  ELSE IF index > S.cindex
  THEN [S EXCEPT !.store = r.st,
                 !.members = CachePut(S.members, m),
                 !.peers = AddPeer(S.peers, m.ID, m.PeerURLs),
                 !.cindex = index]
  ELSE [S EXCEPT !.store = r.st]

AddMember(S, m, index) ==
  AddMemberWith(S, m, index,
                StoreCreate(S.store, MemberRaftAttributesStorePath(m.ID),
                            MarshalRaftAttributes(m.PeerURLs)))

\* Cluster.RemoveMember(id, index)
RemoveMemberCache(S, id, index) ==
  IF index > S.cindex
  THEN IF id \notin DOMAIN S.members THEN Panic(S)
       ELSE [S EXCEPT !.members = CacheDelete(S.members, id),
                      !.removed = S.removed \cup {id},
                      !.peers = RemovePeer(S.peers, id),
                      !.cindex = index]
  ELSE S

RemoveMemberCreate(S, id, index, c) ==
  IF c.err # "nil" THEN Panic(S)
  ELSE RemoveMemberCache([S EXCEPT !.store = c.st], id, index)

RemoveMemberWith(S, id, index, d) ==
  IF d.err # "nil" THEN Panic(S)
  ELSE RemoveMemberCreate([S EXCEPT !.store = d.st], id, index,
                          StoreCreate(d.st, removedMemberStoreKey(id), ""))

RemoveMember(S, id, index) ==
  RemoveMemberWith(S, id, index, StoreDelete(S.store, memberStoreKey(id), TRUE, TRUE))

\* Cluster.UpdateAttributes(id, attr): c.members[id] is nil for an id that
\* is not in the cache, and the assignment panics
UpdateAttributes(S, id, attr) ==
  IF id \notin DOMAIN S.members THEN Panic(S)
  ELSE [S EXCEPT !.members[id].Attributes = attr]

\* Cluster.UpdateRaftAttributes(id, raftAttr, index)
UpdateRaftAttributesWith(S, id, urls, index, r) ==
  IF r.err # "nil" THEN Panic(S)
  ELSE IF index > S.cindex
  THEN IF id \notin DOMAIN S.members THEN Panic([S EXCEPT !.store = r.st])
       ELSE [S EXCEPT !.store = r.st,
                      !.members[id].PeerURLs = urls,
                      !.peers = UpdatePeer(S.peers, id, urls),
                      !.cindex = index]
  ELSE [S EXCEPT !.store = r.st]

UpdateRaftAttributes(S, id, urls, index) ==
  UpdateRaftAttributesWith(S, id, urls, index,
    StoreUpdate(S.store, MemberRaftAttributesStorePath(id), MarshalRaftAttributes(urls)))

\* Cluster.Recover()
RecoverWith(S, ms) ==
  IF ~ms.ok THEN Panic(S)
  ELSE [S EXCEPT !.members = ms.members,
                 !.removed = ms.removed,
                 !.peers = PeersOf(ms.members)]

Recover(S) == RecoverWith(S, membersFromStore(S.store))

(***************************************************************************)
(* Requests, configuration changes and log entries.                        *)
(***************************************************************************)
\* pb.Request; PrevExist is a *bool: "unset", "true" or "false"
Request(id, method, path, val) ==
  [ID |-> id, Method |-> method, Path |-> path, Val |-> val, Dir |-> FALSE,
   PrevExist |-> "unset", PrevIndex |-> 0, PrevValue |-> "", Recursive |-> FALSE,
   Quorum |-> FALSE, Wait |-> FALSE]

\* raftpb.ConfChange; Context is the marshalled Member
ConfChange(id, type, nodeID, urls) ==
  [ID |-> id, Type |-> type, NodeID |-> nodeID, Context |-> NewMember(nodeID, urls)]

NormalEntry(index, r) == [Index |-> index, Type |-> "EntryNormal", Data |-> r]

ConfChangeEntry(index, cc) == [Index |-> index, Type |-> "EntryConfChange", Data |-> cc]

\* storeMemberAttributeRegexp.MatchString(path): the expression is not
\* anchored, so it matches a path that CONTAINS /0/members/<hex id>/attributes...
MatchMemberAttribute(path) ==
  \E i \in 1..Len(path) :
    /\ i + 3 <= Len(path)
    /\ path[i] = "0"
    /\ path[i + 1] = "members"
    /\ path[i + 2] \in {IDString(m) : m \in MemberIDs}
    /\ path[i + 3] = attributesSuffix

\* path.Dir(p)
PathDir(path) == SubSeq(path, 1, Len(path) - 1)

(***************************************************************************)
(* EtcdServer.applyRequest, applyConfChange, apply.                        *)
(***************************************************************************)
Response(S, res) == [S |-> [S EXCEPT !.store = res.st], err |-> res.err, val |-> res.val]

NoResponse(S) == [S |-> S, err |-> "nil", val |-> ""]

\* the default branch of PUT: a member attribute path updates the cluster
\* cache first, then the value is Set

SetAfterAttributes(T, r) ==
  IF T.panicked THEN NoResponse(T) ELSE Response(T, StoreSet(T.store, r.Path, r.Val))

applyPutAttributes(S, r, a) ==
  SetAfterAttributes(IF a.ok THEN UpdateAttributes(S, mustParseMemberIDFromKey(PathDir(r.Path)), a.attr)
                     ELSE Panic(S), r)

applyPut(S, r) ==
  IF MatchMemberAttribute(r.Path)
  THEN applyPutAttributes(S, r, UnmarshalAttributes(r.Val))
  ELSE Response(S, StoreSet(S.store, r.Path, r.Val))

\* an applyRequest whose PUT looks at the precondition before PrevExist
applyRequestPrecondFirst(S, r) ==
  CASE r.Method = "POST" -> Response(S, StoreCreateUnique(S.store, r.Path, r.Val))
    [] r.Method = "PUT" ->
         IF r.PrevIndex > 0 \/ r.PrevValue # ""
         THEN Response(S, StoreCompareAndSwap(S.store, r.Path, r.PrevValue, r.PrevIndex, r.Val))
         ELSE IF r.PrevExist = "true" THEN Response(S, StoreUpdate(S.store, r.Path, r.Val))
         ELSE IF r.PrevExist = "false" THEN Response(S, StoreCreate(S.store, r.Path, r.Val))
         ELSE applyPut(S, r)
    [] r.Method = "DELETE" ->
         IF r.PrevIndex > 0 \/ r.PrevValue # ""
         THEN Response(S, StoreCompareAndDelete(S.store, r.Path, r.PrevValue, r.PrevIndex))
         ELSE Response(S, StoreDelete(S.store, r.Path, r.Dir, r.Recursive))
    [] r.Method = "QGET" -> Response(S, StoreGet(S.store, r.Path))
    [] r.Method = "SYNC" -> NoResponse(S)
    [] OTHER -> [S |-> S, err |-> "ErrUnknownMethod", val |-> ""]

\* EtcdServer.applyRequest(r)
applyRequest(S, r) ==
  CASE r.Method = "POST" -> Response(S, StoreCreateUnique(S.store, r.Path, r.Val))
    [] r.Method = "PUT" ->
         IF r.PrevExist = "true"
         THEN IF r.PrevIndex = 0 /\ r.PrevValue = ""
              THEN Response(S, StoreUpdate(S.store, r.Path, r.Val))
              ELSE Response(S, StoreCompareAndSwap(S.store, r.Path, r.PrevValue, r.PrevIndex, r.Val))
         ELSE IF r.PrevExist = "false"
         THEN Response(S, StoreCreate(S.store, r.Path, r.Val))
         ELSE IF r.PrevIndex > 0 \/ r.PrevValue # ""
         THEN Response(S, StoreCompareAndSwap(S.store, r.Path, r.PrevValue, r.PrevIndex, r.Val))
         ELSE applyPut(S, r)
    [] r.Method = "DELETE" ->
         IF r.PrevIndex > 0 \/ r.PrevValue # ""
         THEN Response(S, StoreCompareAndDelete(S.store, r.Path, r.PrevValue, r.PrevIndex))
         ELSE Response(S, StoreDelete(S.store, r.Path, r.Dir, r.Recursive))
    [] r.Method = "QGET" -> Response(S, StoreGet(S.store, r.Path))
    [] r.Method = "SYNC" -> NoResponse(S)
    [] OTHER -> [S |-> S, err |-> "ErrUnknownMethod", val |-> ""]

\* node.ApplyConfChange(cc) with the confc case of node.run: the voters and
\* whether proposals are blocked
RaftConfChange(S, cc) ==
  IF cc.NodeID = None THEN S
  ELSE CASE cc.Type = "AddNode" -> [S EXCEPT !.raftNodes = @ \cup {cc.NodeID}]
         [] cc.Type = "RemoveNode" ->
              [S EXCEPT !.raftNodes = @ \ {cc.NodeID},
                        !.noProp = @ \/ cc.NodeID = S.id]
         [] OTHER -> S

\* node.ApplyConfChange(cc): the change goes to node.run over confc; the
\* calls are counted and the NodeID of the last one is kept
RaftApplyConfChange(S, cc) ==
  [RaftConfChange(S, cc) EXCEPT !.confCalls = @ + 1, !.confNode = cc.NodeID]

\* the change handed to raft for a rejected change with its NodeID kept
RejectedKept(cc) == cc

\* cc.NodeID = raft.None
Rejected(cc) == [cc EXCEPT !.NodeID = None]

\* EtcdServer.applyConfChange(cc, confState, index)
ConfResult(S, shouldstop, err) == [S |-> S, shouldstop |-> shouldstop, err |-> err]

\* history: applyConfChange has removed the local member and returned true
MarkSelfRemoved(T, self) ==
  IF self /\ ~T.panicked THEN [T EXCEPT !.selfRemoved = TRUE] ELSE T

\* the branch of applyConfChange for a valid change, raft having applied it
applyValidConfChange(R, cc, index) ==
  CASE cc.Type = "AddNode" ->
         ConfResult(IF cc.NodeID # cc.Context.ID THEN Panic(R)
                    ELSE AddMember(R, cc.Context, index), FALSE, "nil")
    [] cc.Type = "RemoveNode" ->
         ConfResult(MarkSelfRemoved(RemoveMember(R, cc.NodeID, index), cc.NodeID = R.id),
                    cc.NodeID = R.id, "nil")
    [] OTHER ->
         ConfResult(IF cc.NodeID # cc.Context.ID THEN Panic(R)
                    ELSE UpdateRaftAttributes(R, cc.Context.ID, cc.Context.PeerURLs, index),
                    FALSE, "nil")

\* *confState = *s.r.ApplyConfChange(cc)
SetConfState(R) == [R EXCEPT !.confState = R.raftNodes]

applyConfChangeWith(S, cc, index, err) ==
  IF err = "panic" THEN ConfResult(Panic(S), FALSE, "nil")
  ELSE IF err # "nil"
  THEN ConfResult(RaftApplyConfChange(S, Rejected(cc)), FALSE, err)
  ELSE applyValidConfChange(SetConfState(RaftApplyConfChange(S, cc)), cc, index)

applyConfChange(S, cc, index) ==
  applyConfChangeWith(S, cc, index, ValidateConfigurationChange(S.store, cc))

\* one iteration of the loop of apply: the entry's effect, the Trigger call
\* it makes, raftNode.index
Triggered(S, id, err, val, index) ==
  IF S.panicked THEN S
  ELSE [S EXCEPT !.trig = Append(@, [id |-> id, err |-> err, val |-> val]),
                 !.rindex = index]

applyNormal(a, e) ==
  [S |-> Triggered(a.S, e.Data.ID, a.err, a.val, e.Index), shouldstop |-> FALSE, conf |-> FALSE]

applyConf(a, e) ==
  [S |-> Triggered(a.S, e.Data.ID, a.err, "", e.Index), shouldstop |-> a.shouldstop, conf |-> TRUE]

applyEntry(S, e) ==
  IF e.Type = "EntryNormal"
  THEN applyNormal(applyRequest(S, e.Data), e)
  ELSE applyConf(applyConfChange(S, e.Data, e.Index), e)

\* EtcdServer.apply(es, confState): applied is 0 when es is empty
RECURSIVE apply(_, _, _, _)
applyRest(a, es, shouldstop) ==
  apply(a.S, Tail(es), Head(es).Index, IF a.conf THEN a.shouldstop ELSE shouldstop)

apply(S, es, applied, shouldstop) ==
  IF es = <<>> \/ S.panicked
  THEN [S |-> S, applied |-> applied, shouldstop |-> shouldstop]
  ELSE applyRest(applyEntry(S, Head(es)), es, shouldstop)

(***************************************************************************)
(* EtcdServer.run: the handling of one apply batch.                        *)
(***************************************************************************)
UintMod == Pow2(UintBits)

\* a - b in uint64 arithmetic
Sub64(a, b) == (a - b + UintMod) % UintMod

EmptySnapshot == [Index |-> 0, ConfState |-> {}, Data |-> StoreSave(StoreNew)]

\* no raft message has been handed to Process
NoMessage == [from |-> None, code |-> "none", afterRemove |-> FALSE]

\* NewServer: the state EtcdServer.run starts from; the Cluster comes from
\* NewClusterFromString, which ends with genID
InitServer(id, members, cindex, nodes) ==
  [id |-> id, cid |-> genID(members), store |-> StoreNew, members |-> members, removed |-> {},
   cindex |-> cindex, peers |-> PeersOf(members), raftNodes |-> nodes,
   noProp |-> FALSE, appliedi |-> 0, snapi |-> 0, confState |-> {},
   rindex |-> 0, panicked |-> FALSE, trig |-> <<>>, rsnap |-> EmptySnapshot,
   confCalls |-> 0, confNode |-> None, selfRemoved |-> FALSE, msg |-> NoMessage]

\* the apply-snapshot branch of run
RunSnapshotDone(U, snap) ==
  IF U.panicked THEN U
  ELSE [U EXCEPT !.appliedi = snap.Index,
                 !.snapi = snap.Index,
                 !.confState = snap.ConfState]

RunSnapshotRecover(T, snap) ==
  RunSnapshotDone(IF T.cindex < snap.Index THEN Recover(T) ELSE T, snap)

RunSnapshot(S, snap) ==
  IF snap.Index <= S.appliedi THEN Panic(S)
  ELSE RunSnapshotRecover([S EXCEPT !.store = StoreRecovery(snap.Data)], snap)

\* the entries handed to apply when none is skipped
EntsAll(appliedi, entries) == entries

\* ents = apply.entries[appliedi+1-firsti:], or nil
EntsFrom(off, entries) ==
  IF off < Len(entries) THEN SubSeq(entries, off + 1, Len(entries)) ELSE <<>>

EntsToApply(appliedi, entries) ==
  EntsFrom(Sub64(appliedi + 1, entries[1].Index), entries)

\* the apply-entries branch of run: the state and whether stopWithDelay
\* is started
RunEntriesDone(a) ==
  [S |-> IF a.S.panicked THEN a.S ELSE [a.S EXCEPT !.appliedi = a.applied],
   shouldstop |-> a.shouldstop /\ ~a.S.panicked]

RunEntries(S, entries) ==
  IF entries[1].Index > S.appliedi + 1
  THEN [S |-> Panic(S), shouldstop |-> FALSE]
  ELSE RunEntriesDone(apply(S, EntsToApply(S.appliedi, entries), 0, FALSE))

\* EtcdServer.snapshot(snapi, confState): the snapshot of a clone of the
\* store reaches raft storage unless that holds a newer one
TakeSnapshot(S) ==
  IF S.appliedi <= S.rsnap.Index THEN S
  ELSE [S EXCEPT !.rsnap = [Index |-> S.appliedi, ConfState |-> S.confState,
                            Data |-> StoreSave(StoreClone(S.store))]]

SetSnapi(S, i) == [S EXCEPT !.snapi = i]

\* a trigger that fires one entry early
ShouldSnapshotEarly(S) == Sub64(S.appliedi, S.snapi) >= SnapCount

\* if appliedi-snapi > s.snapCount
ShouldSnapshot(S) == Sub64(S.appliedi, S.snapi) > SnapCount

\* the trigger-snapshot step of run
RunTriggerSnapshot(S) ==
  IF ShouldSnapshot(S)
  THEN SetSnapi(TakeSnapshot(S), S.appliedi)
  ELSE S

\* case apply := <-s.r.apply(): the whole handler
HandleDone(B) ==
  [S |-> IF B.S.panicked THEN B.S ELSE RunTriggerSnapshot(B.S),
   shouldstop |-> B.shouldstop]

\* if len(apply.entries) != 0 { ... }
BatchEntries(A, batch) ==
  IF A.panicked \/ batch.entries = <<>> THEN [S |-> A, shouldstop |-> FALSE]
  ELSE RunEntries(A, batch.entries)

HandleEntries(A, batch) == HandleDone(BatchEntries(A, batch))

\* the handler up to apply.done <- struct{}{}
HandleBatch(S, batch) ==
  BatchEntries(IF batch.snapshot.Index # 0 THEN RunSnapshot(S, batch.snapshot) ELSE S, batch)

HandleApply(S, batch) ==
  HandleEntries(IF batch.snapshot.Index # 0 THEN RunSnapshot(S, batch.snapshot) ELSE S, batch)

(***************************************************************************)
(* The committed log and the batches raft hands to the server.             *)
(***************************************************************************)
RefAt(k) == refs[k + 1]

\* the snapshot a member of the cluster takes at index k; rs are the
\* states of a member that applied the log one entry at a time
SnapshotAt(rs, k) ==
  IF k = 0 THEN EmptySnapshot
  ELSE [Index |-> k, ConfState |-> rs[k + 1].confState, Data |-> StoreSave(rs[k + 1].store)]

RefStep(R, e) == [applyEntry(R, e).S EXCEPT !.trig = <<>>, !.appliedi = e.Index]

RECURSIVE RefStates(_, _)
RefStates(R, es) ==
  IF es = <<>> THEN <<R>> ELSE <<R>> \o RefStates(RefStep(R, Head(es)), Tail(es))

\* the log of a new cluster with members 1 and 2: StartNode appends one
\* ConfChangeAddNode entry per peer
FreshLog ==
  <<ConfChangeEntry(1, ConfChange(0, "AddNode", 1, {"u1"})),
    ConfChangeEntry(2, ConfChange(0, "AddNode", 2, {"u2"}))>>

FreshMembers == [i \in {1, 2} |-> NewMember(i, IF i = 1 THEN {"u1"} ELSE {"u2"})]

\* the log of a cluster started by member 1 to which 3 was added and
\* removed again before 2 was added
JoinLog ==
  <<ConfChangeEntry(1, ConfChange(0, "AddNode", 1, {"u1"})),
    ConfChangeEntry(2, ConfChange(0, "AddNode", 3, {"u2"})),
    ConfChangeEntry(3, ConfChange(0, "RemoveNode", 3, {})),
    ConfChangeEntry(4, ConfChange(0, "AddNode", 2, {"u2"}))>>

JoinFirstMembers == [i \in {1} |-> NewMember(i, {"u1"})]

\* the log of a cluster started by member 1 in which 3 was added, published
\* its attributes and was removed before 2 was added
PublishLog ==
  <<ConfChangeEntry(1, ConfChange(0, "AddNode", 1, {"u1"})),
    ConfChangeEntry(2, ConfChange(0, "AddNode", 3, {"u3"})),
    NormalEntry(3, Request(0, "PUT", MemberAttributesStorePath(3), MarshalAttributes("n1"))),
    ConfChangeEntry(4, ConfChange(0, "RemoveNode", 3, {})),
    ConfChangeEntry(5, ConfChange(0, "AddNode", 2, {"u2"}))>>

\* the log of the new cluster after member 1 was removed and 3 was added
LeaveLog ==
  FreshLog \o
  <<ConfChangeEntry(3, ConfChange(0, "RemoveNode", 1, {})),
    ConfChangeEntry(4, ConfChange(0, "AddNode", 3, {"u3"}))>>

HistInit ==
  [lastIdx |-> 0, outOfOrder |-> FALSE, kind |-> "none", n |-> 0, skipped |-> FALSE, replays |-> 0]

\* Init of the apply loop: a member of a new cluster (id 1), or a member
\* (id 2) joining an existing cluster, whose Cluster comes from a peer
\* together with that peer's index
ApplyFresh ==
  /\ srv = InitServer(1, FreshMembers, 0, {1, 2})
  /\ clog = FreshLog
  /\ refs = RefStates(InitServer(None, FreshMembers, 0, {}), FreshLog)

ApplyJoin ==
  /\ clog = JoinLog
  /\ refs = RefStates(InitServer(None, JoinFirstMembers, 0, {}), JoinLog)
  /\ srv = SetID(InitServer(2, refs[Len(JoinLog) + 1].members, Len(JoinLog), {}),
               refs[Len(JoinLog) + 1].cid)

\* member 1 of the new cluster, behind a log that removes it
ApplyLeave ==
  /\ srv = InitServer(1, FreshMembers, 0, {1, 2})
  /\ clog = LeaveLog
  /\ refs = RefStates(InitServer(None, FreshMembers, 0, {}), LeaveLog)

\* member 2 joining the cluster whose removed member had published
ApplyJoinLate ==
  /\ clog = PublishLog
  /\ refs = RefStates(InitServer(None, JoinFirstMembers, 0, {}), PublishLog)
  /\ srv = SetID(InitServer(2, refs[Len(PublishLog) + 1].members, Len(PublishLog), {}),
               refs[Len(PublishLog) + 1].cid)

ApplyInit ==
  /\ ApplyFresh \/ ApplyJoin \/ ApplyLeave \/ ApplyJoinLate
  /\ running = TRUE
  /\ errorc = 0
  /\ delayers = 0
  /\ hist = HistInit

ApplyIdle ==
  /\ ApplyFresh
  /\ running = TRUE
  /\ errorc = 0
  /\ delayers = 0
  /\ hist = HistInit

\* the log is the one that removed member 1
LeftCluster ==
  srv.id = 1 /\ Len(clog) >= Len(LeaveLog) /\ SubSeq(clog, 1, Len(LeaveLog)) = LeaveLog

\* the log is the one in which the removed member had published
JoinedLate ==
  srv.id # 1 /\ Len(clog) >= Len(PublishLog) /\ SubSeq(clog, 1, Len(PublishLog)) = PublishLog

BaseLen ==
  IF JoinedLate THEN Len(PublishLog)
  ELSE IF srv.id # 1 THEN Len(JoinLog)
  ELSE IF LeftCluster THEN Len(LeaveLog)
  ELSE Len(FreshLog)

\* the entries the cluster may still commit and send to this member: none
\* once the member has been removed; the late joiner is followed over the
\* log it joined with
NewEntryRoom ==
  IF LeftCluster \/ JoinedLate THEN 0 ELSE BaseLen + MaxNewEntries - Len(clog)

\* the configuration changes and requests the cluster commits
ConfChanges ==
  {ConfChange(0, "AddNode", 3, {"u1"}), ConfChange(0, "AddNode", 3, {"u3"}),
   ConfChange(0, "AddNode", 2, {"u2"}),
   ConfChange(0, "UpdateNode", 1, {"u2"}), ConfChange(0, "UpdateNode", 2, {"u3"}),
   ConfChange(0, "UpdateNode", 3, {"u3"})}
    \cup {ConfChange(0, "RemoveNode", id, {}) : id \in MemberIDs}

Requests ==
  {Request(0, "PUT", MemberAttributesStorePath(2), MarshalAttributes("n1")),
   Request(0, "PUT", StoreKeysPrefix \o <<"k">>, "a")}

\* the entries the cluster may commit at index i
EntriesAt(i) ==
  {ConfChangeEntry(i, cc) : cc \in ConfChanges} \cup {NormalEntry(i, r) : r \in Requests}

\* the runs of at most k entries committed from index i on
RECURSIVE NewEntries(_, _)
NewEntries(i, k) ==
  IF k <= 0 THEN {<<>>}
  ELSE {<<>>} \cup {<<e>> \o rest : e \in EntriesAt(i), rest \in NewEntries(i + 1, k - 1)}

\* the states of the reference member over the log extended by new
RefsWith(new) == refs \o Tail(RefStates(RefAt(Len(clog)), new))

\* the cluster is alive when it commits: no member that applied the log up
\* to the entry before has panicked
Committable(rs, n) == \A k \in (Len(clog) + 1)..n : ~rs[k].panicked

\* an entry is committed by the cluster
Commit(e) ==
  /\ ~srv.panicked
  /\ Committable(refs, Len(clog) + 1)
  /\ e.Index = Len(clog) + 1
  /\ clog' = Append(clog, e)
  /\ refs' = RefsWith(<<e>>)

\* the batch with snapshot at s (0: none) and entries f..t (t = 0: none)
Batch(log, rs, s, f, t) == [snapshot |-> SnapshotAt(rs, s), entries |-> SubSeq(log, f, t)]

\* the index the entries of a batch are measured against
BaseIndex(S, s) == IF s # 0 THEN s ELSE S.appliedi

\* all entries of the batch lie at or below that index
SkipsAll(S, s, f, t) == f <= t /\ t <= BaseIndex(S, s)

\* the batch has no snapshot and lies entirely at or below the applied index
IsReplay(S, s, f, t) == s = 0 /\ SkipsAll(S, s, f, t)

\* the handler reaches its call of apply with entries to apply
Applies(S, s, f, t) ==
  /\ s # 0 => s > S.appliedi
  /\ f <= t /\ f <= BaseIndex(S, s) + 1 /\ t > BaseIndex(S, s)

\* history of the apply loop:
\*   lastIdx     index of the last entry handed to apply
\*   outOfOrder  an entry was handed to apply whose index is not above lastIdx
\*   kind, n     the last batch handled; if it carried a snapshot, the
\*               highest index it carried
\*   skipped     the last batch carried entries, all of them skipped
\*   replays     number of batches whose entries were all skipped
HistNext(S, T, s, f, t) ==
  [lastIdx |-> IF Applies(S, s, f, t) THEN (IF T.panicked THEN T.rindex ELSE t) ELSE hist.lastIdx,
   outOfOrder |-> hist.outOfOrder \/ (Applies(S, s, f, t) /\ BaseIndex(S, s) + 1 <= hist.lastIdx),
   kind |-> IF T.panicked THEN "panic"
            ELSE IF s # 0 THEN "snapshot"
            ELSE IF IsReplay(S, s, f, t) THEN "replay" ELSE "apply",
   n |-> IF T.panicked \/ s = 0 THEN 0 ELSE Max(s, t),
   skipped |-> ~T.panicked /\ SkipsAll(S, s, f, t),
   replays |-> hist.replays + (IF ~T.panicked /\ SkipsAll(S, s, f, t) THEN 1 ELSE 0)]

\* the run is followed for one batch after a batch whose entries were all
\* skipped
Followed == hist.replays = 0 \/ hist.skipped

\* the first indexes a batch is tried with when the server stands at a: the
\* start of the log (the largest overlap), the next index, and one beyond
FirstIndexes(a, n) == {1, a + 1, a + 2} \cap (1..n)

\* raft restores its configuration from a snapshot above its commit index
\* before handing it over
RaftRestore(S, snap) ==
  IF snap.Index <= S.appliedi THEN S ELSE [S EXCEPT !.raftNodes = snap.ConfState]

\* EtcdServer.run receives a batch and handles it.  The batch is cut from
\* the committed log, which the cluster has extended by new: a snapshot at
\* s (0: none) and the entries f..t (t = 0: none).
ClearTrig(S) == [S EXCEPT !.trig = <<>>]

Handled(h, s, f, t) ==
  /\ srv' = ClearTrig(h.S)
  /\ delayers' = delayers + (IF h.shouldstop THEN 1 ELSE 0)
  /\ hist' = HistNext(srv, h.S, s, f, t)

Received(b, s, f, t) ==
  Handled(HandleApply(ClearTrig(RaftRestore(srv, b.snapshot)), b), s, f, t)

RunApply(log, rs, s, f, t) ==
  /\ running /\ ~srv.panicked
  /\ s # 0 \/ t # 0
  /\ t = 0 \/ f <= t
  /\ Len(log) > Len(clog) => Max(s, t) = Len(log)
  /\ s # 0 => ~rs[s + 1].panicked
  /\ SkipsAll(srv, s, f, t) => hist.replays < MaxReplays
  /\ hist.replays > 0 => Len(log) = Len(clog) /\ (s = 0 \/ t = 0)
  /\ Received(Batch(log, rs, s, f, t), s, f, t)
  /\ clog' = log
  /\ refs' = rs
  /\ UNCHANGED <<running, errorc>>

\* a batch arrives after the cluster has committed new
Delivered(log, rs) ==
  /\ Committable(rs, Len(log))
  /\ \E s \in 0..Len(log), t \in 0..Len(log) :
       \E f \in FirstIndexes(BaseIndex(srv, s), Len(log)) :
         RunApply(log, rs, s, f, t)

Deliver(new) ==
  /\ running /\ ~srv.panicked /\ Followed
  /\ Delivered(clog \o new, RefsWith(new))

\* stopWithDelay: after the delay, a non-blocking send on errorc
StopWithDelay ==
  /\ delayers > 0
  /\ delayers' = delayers - 1
  /\ errorc' = IF errorc = 0 THEN 1 ELSE errorc
  /\ UNCHANGED <<srv, running, clog, refs, hist>>

\* case err := <-s.errorc: run returns
RunErrorc ==
  /\ running /\ ~srv.panicked
  /\ errorc > 0
  /\ errorc' = errorc - 1
  /\ running' = FALSE
  /\ UNCHANGED <<srv, delayers, clog, refs, hist>>

(***************************************************************************)
(* raft.node (src/raft/node.go): node.run and the methods of the Node      *)
(* interface that talk to it over unbuffered channels.                     *)
(*                                                                         *)
(* nd holds the local variables of node.run and what it writes:            *)
(*   stopped    run has returned and n.done is closed                      *)
(*   pc         "select", or "confstate" inside case cc := <-n.confc, at   *)
(*              the send on n.confstatec to the caller nd.conf             *)
(*   advancec   the local advancec is n.advancec (not nil)                 *)
(*   upd        newReady(...).containsUpdates()                            *)
(*   rlead      r.lead; lead the local lead                                *)
(*   propc      the local propc is the proposal channel (not nil)          *)
(*   fpropc     the field n.propc is the proposal channel (not nil)        *)
(*   removed    a Remove of the node's own id went through confc           *)
(*   stepped    the calls <<caller, number>> whose proposal was handed to  *)
(*              r.Step                                                     *)
(*   seen       the callers that communicated with run over a channel      *)
(*              after the write n.propc = nil, so that the write happens   *)
(*              before what they do next                                   *)
(*   readys, advs  the Readys delivered and the Advances received          *)
(* ncalls[c] is the call caller c has in hand: the method m with its       *)
(* argument arg, pc ("idle", "select" at its first select, "recv" at its   *)
(* second receive, "returned"), the result res, the channel ch that step   *)
(* chose, whether the call was made after the removal / after the stop,    *)
(* whether it was taken while an Advance was outstanding, and the number   *)
(* k of calls made.  The raft state machine (r.Step, r.tick) is not part   *)
(* of the source: what it reports and whom it takes for leader after a     *)
(* message or a tick is left open.                                         *)
(***************************************************************************)
NodeCallers == 1..NumNodeCallers

\* r.lead after a step of the raft state machine: none, the node, a peer
NodeLeads == {None, 1, 2}

\* the methods of Node, with the kinds of argument that make a difference
NodeKinds ==
  {[m |-> "Tick", arg |-> "none"], [m |-> "Campaign", arg |-> "none"],
   [m |-> "Propose", arg |-> "none"], [m |-> "ProposeConfChange", arg |-> "none"],
   [m |-> "Step", arg |-> "MsgApp"], [m |-> "Step", arg |-> "MsgProp"],
   [m |-> "Step", arg |-> "MsgHup"],
   [m |-> "Advance", arg |-> "none"],
   [m |-> "ApplyConfChange", arg |-> "AddNode"], [m |-> "ApplyConfChange", arg |-> "RemoveSelf"],
   [m |-> "ApplyConfChange", arg |-> "None"],
   [m |-> "Status", arg |-> "none"], [m |-> "ReportUnreachable", arg |-> "none"],
   [m |-> "ReportSnapshot", arg |-> "none"], [m |-> "Stop", arg |-> "none"]}

NodeStart ==
  [stopped |-> FALSE, pc |-> "select", conf |-> 0, advancec |-> FALSE, upd |-> TRUE,
   rlead |-> None, lead |-> None, propc |-> FALSE, fpropc |-> TRUE, removed |-> FALSE,
   stepped |-> {}, seen |-> {}, readys |-> 0, advs |-> 0]

IdleCall ==
  [m |-> "none", arg |-> "none", pc |-> "idle", res |-> "none", ch |-> "none",
   afterRemove |-> FALSE, afterStop |-> FALSE, out |-> FALSE, k |-> 0]

NodeIdle == nd = NodeStart /\ ncalls = [c \in NodeCallers |-> IdleCall]

\* the head of the loop of node.run: if lead != r.lead { propc = n.propc
\* or nil; lead = r.lead }
LoopHead(n) ==
  IF n.lead # n.rlead
  THEN [n EXCEPT !.propc = IF n.rlead # None THEN n.fpropc ELSE FALSE, !.lead = n.rlead]
  ELSE n

\* a loop head that offers a Ready whenever there are updates
ReadyOfferedAlways(n) == n.upd

\* if advancec != nil { readyc = nil } else if rd.containsUpdates()
\* { readyc = n.readyc }
ReadyOffered(n) == ~n.advancec /\ n.upd

\* the message a call hands to node.step
IsProposal(k) ==
  k.m \in {"Propose", "ProposeConfChange"} \/ (k.m = "Step" /\ k.arg = "MsgProp")

StepsMessage(k) == IsProposal(k) \/ k.m = "Campaign" \/ (k.m = "Step" /\ k.arg = "MsgApp")

\* the values the read of the field n.propc in node.step can give to caller
\* c.  The field is written by node.run and read by the callers without a
\* lock: a caller that has not communicated with run since the write
\* n.propc = nil reads either value
ReadPropc(c) ==
  IF nd.removed /\ c \notin nd.seen THEN {"propc", "nil"}
  ELSE {IF nd.fpropc THEN "propc" ELSE "nil"}

\* ch := n.recvc; if m.Type == pb.MsgProp { ch = n.propc }
StepChannel(k, propc) == IF IsProposal(k) THEN propc ELSE "recvc"

\* the channel the first select of the method sends on
CallChannel(k, propc) ==
  CASE StepsMessage(k) -> StepChannel(k, propc)
    [] k.m \in {"ReportUnreachable", "ReportSnapshot"} -> "recvc"
    [] k.m = "Tick" -> "tickc"
    [] k.m = "Advance" -> "advancec"
    [] k.m = "ApplyConfChange" -> "confc"
    [] k.m = "Status" -> "status"
    [] OTHER -> "stop"

\* Step(ctx, m) returns nil at once for a local message
ReturnsAtOnce(k) == k.m = "Step" /\ k.arg = "MsgHup"

NewNodeCall(c, k, propc) ==
  [m |-> k.m, arg |-> k.arg,
   pc |-> IF ReturnsAtOnce(k) THEN "returned" ELSE "select",
   res |-> IF ReturnsAtOnce(k) THEN "nil" ELSE "none",
   ch |-> IF ReturnsAtOnce(k) THEN "none" ELSE CallChannel(k, propc),
   afterRemove |-> nd.removed, afterStop |-> nd.stopped, out |-> FALSE,
   k |-> ncalls[c].k + 1]

\* a goroutine calls a method of the node
NodeCall(c, k) ==
  /\ ncalls[c].pc \in {"idle", "returned"}
  /\ ncalls[c].k < MaxNodeCalls
  /\ \E propc \in ReadPropc(c) : ncalls' = [ncalls EXCEPT ![c] = NewNodeCall(c, k, propc)]
  /\ UNCHANGED nd

\* node.run stands at its select
AtSelect == ~nd.stopped /\ nd.pc = "select"

Sends(c, ch) == ncalls[c].pc = "select" /\ ncalls[c].ch = ch

\* run has received from caller c
Met(n, c) == IF n.removed THEN [n EXCEPT !.seen = @ \cup {c}] ELSE n

Taken(c, res) ==
  ncalls' = [ncalls EXCEPT ![c].pc = "returned", ![c].res = res, ![c].out = nd.advancec]

\* case m := <-propc: m.From = r.id; r.Step(m)
NodeProp(c) ==
  /\ AtSelect
  /\ nd.propc
  /\ Sends(c, "propc")
  /\ nd' = LoopHead(Met([nd EXCEPT !.stepped = @ \cup {<<c, ncalls[c].k>>}, !.upd = TRUE], c))
  /\ Taken(c, "nil")

\* case m := <-n.recvc: r.Step(m) unless it is a response from an unknown
\* peer
NodeRecv(c, lead, upd) ==
  /\ AtSelect
  /\ Sends(c, "recvc")
  /\ nd' = LoopHead(Met([nd EXCEPT !.rlead = lead, !.upd = @ \/ upd], c))
  /\ Taken(c, IF StepsMessage(ncalls[c]) THEN "nil" ELSE "ok")

\* case <-n.tickc: r.tick()
NodeTick(c, lead, upd) ==
  /\ AtSelect
  /\ Sends(c, "tickc")
  /\ nd' = LoopHead(Met([nd EXCEPT !.rlead = lead, !.upd = @ \/ upd], c))
  /\ Taken(c, "ok")

\* case cc := <-n.confc, up to the send on n.confstatec; a Remove of the
\* node's own id sets n.propc = nil
ConfApplied(n, arg) ==
  IF arg = "RemoveSelf" THEN [n EXCEPT !.fpropc = FALSE, !.removed = TRUE, !.seen = {}] ELSE n

NodeConf(c) ==
  /\ AtSelect
  /\ Sends(c, "confc")
  /\ nd' = [Met(ConfApplied(nd, ncalls[c].arg), c) EXCEPT !.pc = "confstate", !.conf = c]
  /\ ncalls' = [ncalls EXCEPT ![c].pc = "recv", ![c].out = nd.advancec]

\* case n.confstatec <- pb.ConfState{...} meets cs = <-n.confstatec
NodeConfState(c) ==
  /\ ~nd.stopped
  /\ nd.pc = "confstate" /\ nd.conf = c
  /\ ncalls[c].pc = "recv"
  /\ nd' = LoopHead([nd EXCEPT !.pc = "select", !.conf = 0])
  /\ ncalls' = [ncalls EXCEPT ![c].pc = "returned", ![c].res = "ok"]

\* case readyc <- rd: the Ready is taken by the reader of Ready()
NodeReady ==
  /\ AtSelect
  /\ ReadyOffered(nd)
  /\ nd.readys < MaxReady
  /\ nd' = LoopHead([nd EXCEPT !.advancec = TRUE, !.upd = FALSE, !.readys = @ + 1])
  /\ UNCHANGED ncalls

\* case <-advancec
NodeAdvance(c) ==
  /\ AtSelect
  /\ nd.advancec
  /\ Sends(c, "advancec")
  /\ nd' = LoopHead(Met([nd EXCEPT !.advancec = FALSE, !.advs = @ + 1], c))
  /\ Taken(c, "ok")

\* case c := <-n.status: c <- getStatus(r)
NodeStatus(c) ==
  /\ AtSelect
  /\ Sends(c, "status")
  /\ nd' = LoopHead(Met(nd, c))
  /\ Taken(c, "ok")

\* case <-n.stop: close(n.done); return.  Stop then waits on <-n.done
NodeStop(c) ==
  /\ AtSelect
  /\ Sends(c, "stop")
  /\ nd' = [nd EXCEPT !.stopped = TRUE]
  /\ ncalls' = [ncalls EXCEPT ![c].pc = "recv"]

\* the methods whose selects have a case <-n.done
HasDoneCase(k) == k.m # "Status"

\* the methods that take a context
HasContext(k) == StepsMessage(k)

\* case <-n.done in the select of a method, and <-n.done at the end of Stop
CallDone(c) ==
  /\ nd.stopped
  /\ ncalls[c].pc \in {"select", "recv"}
  /\ HasDoneCase(ncalls[c])
  /\ ncalls' = [ncalls EXCEPT ![c].pc = "returned",
                               ![c].res = IF HasContext(ncalls[c]) THEN "ErrStopped" ELSE "ok"]
  /\ UNCHANGED nd

\* case <-ctx.Done(): return ctx.Err()
NodeCallCtx(c) ==
  /\ ncalls[c].pc = "select"
  /\ HasContext(ncalls[c])
  /\ ncalls' = [ncalls EXCEPT ![c].pc = "returned", ![c].res = "ctx"]
  /\ UNCHANGED nd

(***************************************************************************)
(* EtcdServer.run by its blocking points, and the goroutine started by     *)
(* EtcdServer.snapshot.                                                    *)
(*                                                                         *)
(* snp.pc is where run stands: "select" at the head of its loop, "notify"  *)
(* at apply.done <- struct{}{}, "trigger" after it.  snp.batches counts    *)
(* the batches taken, snp.dones the batches whose done was signalled, and  *)
(* snp.last is the highest index of the batch in hand.  snp.tasks are the  *)
(* goroutines launched, each with its snapi, the batch it was launched     *)
(* after and its position: "create" before CreateSnapshot, "save" before   *)
(* SaveSnap, "compact" before Compact, "end" after its return.             *)
(* The raft storage (raft.MemoryStorage): snp.snapIndex is the index of    *)
(* its snapshot, snp.first the index of its first (dummy) entry, snp.stored*)
(* its last index.  snp.disk are the snapshots SaveSnap wrote, and         *)
(* snp.compactions the calls of Compact made, each with whether its        *)
(* snapshot was on disk at the call.  snp.fatal: the process has ended.    *)
(* snp.drv is where raftNode.run stands with the Ready of the batch in     *)
(* hand: "writes" after r.applyc <- apply, before its writes to the disk   *)
(* and the raft storage, "wait" at <-apply.done, "idle" otherwise;         *)
(* snp.rdsnap is the index of the snapshot of that Ready (0: none) and     *)
(* snp.rdisk the snapshots raftNode.run saved.                             *)
(* A goroutine carries the clone of the store and the confState it was     *)
(* started with, err, the error that ended it, and whether it has written  *)
(* its snapshot file and compacted the log.                                *)
(***************************************************************************)
numberOfCatchUpEntries == 5000

SnpIdle ==
  [pc |-> "select", batches |-> 0, dones |-> 0, last |-> 0, tasks |-> <<>>,
   snapIndex |-> 0, first |-> 0, stored |-> 0, disk |-> {}, compactions |-> <<>>,
   fatal |-> FALSE, drv |-> "idle", rdsnap |-> 0, rdisk |-> {}]

\* clone := s.store.Clone(); go func() { ... }() of
\* EtcdServer.snapshot(snapi, confState)
SnapshotTask(snapi, confState, clone, batch) ==
  [snapi |-> snapi, confState |-> confState, clone |-> clone, batch |-> batch,
   pc |-> "create", err |-> "none", data |-> StoreSave(StoreNew),
   saved |-> FALSE, compacted |-> FALSE]

\* case apply := <-s.r.apply(): the snapshot and the entries of the batch,
\* up to apply.done <- struct{}{}
TakeBatch(b, s, f, t) ==
  Handled(HandleBatch(ClearTrig(RaftRestore(srv, b.snapshot)), b), s, f, t)

RunReceive(log, rs, s, f, t) ==
  /\ running /\ ~srv.panicked /\ ~snp.fatal
  /\ snp.pc = "select" /\ snp.drv = "idle"
  /\ s # 0 \/ t # 0
  /\ t = 0 \/ f <= t
  /\ Len(log) > Len(clog) => Max(s, t) = Len(log)
  /\ s # 0 => ~rs[s + 1].panicked
  /\ SkipsAll(srv, s, f, t) => hist.replays < MaxReplays
  /\ hist.replays > 0 => Len(log) = Len(clog) /\ (s = 0 \/ t = 0)
  /\ TakeBatch(Batch(log, rs, s, f, t), s, f, t)
  /\ clog' = log
  /\ refs' = rs
  /\ snp' = [snp EXCEPT !.pc = "notify", !.batches = @ + 1, !.last = Max(s, t),
                         !.drv = "writes", !.rdsnap = s]
  /\ UNCHANGED <<running, errorc>>

SnapReceive(new) ==
  /\ running /\ ~srv.panicked /\ Followed
  /\ Committable(RefsWith(new), Len(clog \o new))
  /\ \E s \in 0..Len(clog \o new), t \in 0..Len(clog \o new) :
       \E f \in FirstIndexes(BaseIndex(srv, s), Len(clog \o new)) :
         RunReceive(clog \o new, RefsWith(new), s, f, t)

\* raft.MemoryStorage.ApplySnapshot(snap): the storage holds the snapshot
\* and nothing else
ApplySnapshot(st, i) ==
  IF i = 0 THEN st ELSE [st EXCEPT !.snapIndex = i, !.first = i, !.stored = i]

\* raftNode.run between r.applyc <- apply and <-apply.done: SaveSnap and
\* ApplySnapshot for a snapshot, Save, r.raftStorage.Append(rd.Entries)
SnapAppend ==
  /\ running /\ ~srv.panicked /\ ~snp.fatal
  /\ snp.drv = "writes"
  /\ snp' = [ApplySnapshot(snp, snp.rdsnap) EXCEPT
               !.stored = Max(@, snp.last), !.drv = "wait",
               !.rdisk = IF snp.rdsnap = 0 THEN @ ELSE @ \cup {snp.rdsnap}]
  /\ UNCHANGED applyVars

\* a hand-over of done that does not wait for raftNode.run
DriverAnywhere == TRUE

\* raftNode.run stands at <-apply.done
DriverWrote == snp.drv = "wait"

\* apply.done <- struct{}{} meets <-apply.done in raftNode.run, which has
\* appended the entries of the Ready to the raft storage before it
SnapDone ==
  /\ running /\ ~srv.panicked
  /\ snp.pc = "notify"
  /\ DriverWrote
  /\ snp' = [snp EXCEPT !.pc = "trigger", !.dones = @ + 1,
                         !.drv = IF @ = "wait" THEN "idle" ELSE @]
  /\ UNCHANGED applyVars

\* // trigger snapshot
Launched(S) ==
  IF ShouldSnapshot(S)
  THEN [snp EXCEPT !.pc = "select",
                   !.tasks = Append(@, SnapshotTask(S.appliedi, S.confState, StoreClone(S.store),
                                                    snp.batches))]
  ELSE [snp EXCEPT !.pc = "select"]

SnapTrigger ==
  /\ running /\ ~srv.panicked
  /\ snp.pc = "trigger"
  /\ srv' = IF ShouldSnapshot(srv) THEN SetSnapi(srv, srv.appliedi) ELSE srv
  /\ snp' = Launched(srv)
  /\ UNCHANGED <<running, errorc, delayers, clog, refs, hist>>

\* case err := <-s.errorc, taken at the head of the loop
SnapErrorc ==
  /\ snp.pc = "select"
  /\ RunErrorc
  /\ UNCHANGED snp

SnapStopWithDelay == StopWithDelay /\ UNCHANGED snp

\* the goroutine of EtcdServer.snapshot
TaskAt(i, pc) == ~snp.fatal /\ i \in 1..Len(snp.tasks) /\ snp.tasks[i].pc = pc

\* raft.MemoryStorage.CreateSnapshot(snapi, &confState, d)
CreateSnapshot(st, i) ==
  IF i <= st.snapIndex THEN [st |-> st, err |-> "ErrSnapOutOfDate"]
  ELSE IF i > st.stored THEN [st |-> st, err |-> "panic"]
  ELSE [st |-> [st EXCEPT !.snapIndex = i], err |-> "nil"]

\* raft.MemoryStorage.Compact(compacti)
Compact(st, i) ==
  IF i <= st.first THEN [st |-> st, err |-> "ErrCompacted"]
  ELSE IF i > st.stored THEN [st |-> st, err |-> "panic"]
  ELSE [st |-> [st EXCEPT !.first = i], err |-> "nil"]

\* a goroutine for which every error of CreateSnapshot ends the process
CreatedOrFatal(i, r) ==
  [r.st EXCEPT !.tasks[i].pc = IF r.err = "nil" THEN "save" ELSE "end",
               !.tasks[i].err = IF r.err = "nil" THEN @ ELSE r.err,
               !.fatal = r.err # "nil"]

\* snap, err := s.r.raftStorage.CreateSnapshot(...): an outdated snapshot
\* ends the goroutine, any other error the process
Created(i, r) ==
  [r.st EXCEPT !.tasks[i].pc = IF r.err = "nil" THEN "save" ELSE "end",
               !.tasks[i].err = IF r.err = "nil" THEN @ ELSE r.err,
               !.fatal = r.err = "panic"]

\* d, err := clone.SaveNoCopy()
SaveNoCopy(t, S) == StoreSave(t.clone)

TaskCreate(i) ==
  /\ TaskAt(i, "create")
  /\ snp' = [Created(i, CreateSnapshot(snp, snp.tasks[i].snapi)) EXCEPT
               !.tasks[i].data = SaveNoCopy(snp.tasks[i], srv)]
  /\ UNCHANGED applyVars

\* s.r.storage.SaveSnap(snap): a failed save ends the process
TaskSaveSnap(i, ok) ==
  /\ TaskAt(i, "save")
  /\ snp' = IF ok THEN [snp EXCEPT !.tasks[i].pc = "compact", !.tasks[i].saved = TRUE,
                                   !.disk = @ \cup {snp.tasks[i].snapi}]
            ELSE [snp EXCEPT !.tasks[i].pc = "end", !.tasks[i].err = "SaveSnap", !.fatal = TRUE]
  /\ UNCHANGED applyVars

\* a compaction index taken without the guard
CompactIndexUnguarded(snapi) ==
  (snapi - numberOfCatchUpEntries + Pow2(CompactBits)) % Pow2(CompactBits)

\* compacti := uint64(1); if snapi > numberOfCatchUpEntries { compacti =
\* snapi - numberOfCatchUpEntries }
CompactIndex(snapi) ==
  IF snapi > numberOfCatchUpEntries
  THEN (snapi - numberOfCatchUpEntries + Pow2(CompactBits)) % Pow2(CompactBits)
  ELSE 1

\* err = s.r.raftStorage.Compact(compacti): a log compacted already ends
\* the goroutine, any other error the process
Compacted(i, snapi, r) ==
  [r.st EXCEPT !.tasks[i].pc = "end",
               !.tasks[i].err = r.err,
               !.tasks[i].compacted = r.err = "nil",
               !.fatal = r.err = "panic",
               !.compactions = Append(@, [snapi |-> snapi, compacti |-> CompactIndex(snapi),
                                          saved |-> snapi \in snp.disk, err |-> r.err,
                                          first |-> r.st.first])]

TaskCompact(i) ==
  /\ TaskAt(i, "compact")
  /\ snp' = Compacted(i, snp.tasks[i].snapi, Compact(snp, CompactIndex(snp.tasks[i].snapi)))
  /\ UNCHANGED applyVars

\* the indexes the snapshot goroutines are followed with, and the states
\* of the raft storage they find
SnapIndexes ==
  {1, 2, numberOfCatchUpEntries - 1, numberOfCatchUpEntries, numberOfCatchUpEntries + 1,
   numberOfCatchUpEntries + 2, 2 * numberOfCatchUpEntries + 1}

StorageSnaps == {0, 1, numberOfCatchUpEntries}

StorageFirsts == {0, 1, 2}

TaskSeqs ==
  UNION {[1..n -> {SnapshotTask(a, {}, StoreNew, 0) : a \in SnapIndexes}] : n \in 1..MaxTasks}

(***************************************************************************)
(* The gateway: EtcdServer.Do and EtcdServer.configure                     *)
(*                                                                         *)
(* A call takes an id from the generator, registers it with the wait       *)
(* registry, proposes, and then selects on its channel, its context and    *)
(* the done channel of the server.  Task 0 of the wait registry is the     *)
(* apply loop, task c is call c.  raft hands the committed entries to the  *)
(* apply loop one per batch.                                               *)
(***************************************************************************)
Callers == 1..MaxCalls

ApplyProc == 0

DoIDs == 0..(WordMod - 1)

NewCall(kind, id, ch, data) ==
  [kind |-> kind, id |-> id, ch |-> ch, data |-> data, pc |-> "propose",
   ctx |-> FALSE, via |-> "none", late |-> FALSE, lateSlot |-> 0,
   res |-> [err |-> "none", val |-> ""]]

\* the requests handed to Do and the changes handed to configure
DoRequests == {Request(0, "PUT", StoreKeysPrefix \o <<"k">>, "a")}

ConfigureChanges ==
  {ConfChange(0, "AddNode", 3, {"u3"}), ConfChange(0, "AddNode", 2, {"u2"})}

Proposal(kind, data, id) ==
  [Type |-> IF kind = "Do" THEN "EntryNormal" ELSE "EntryConfChange",
   Data |-> [data EXCEPT !.ID = id]]

DoIdle ==
  /\ calls = <<>>
  /\ pending = {}

DoInit ==
  /\ wm = [i \in DoIDs |-> 0]
  /\ chans = <<>>
  /\ wproc = [p \in {ApplyProc} \cup Callers |-> WaitIdleProc]
  /\ wpanic = FALSE
  /\ gen = NewGenerator(1, 0)
  /\ gmu = 0
  /\ gproc = [p \in GenProcs |-> GenIdleProc]
  /\ gids = <<>>
  /\ DoIdle

\* the process is alive: no goroutine has panicked
Alive == ~srv.panicked /\ ~wpanic

\* r.ID = s.reqIDGen.Next(); ch := s.w.Register(r.ID), the call holding the
\* proposal it is about to make
Registered(kind, data, id) ==
  /\ chans' = RegisterChans(chans, wm, id)
  /\ wm' = RegisterMap(chans, wm, id)
  /\ calls' = Append(calls, NewCall(kind, id, RegisterMap(chans, wm, id)[id],
                                    Proposal(kind, data, id)))

CallRegister(kind, data) ==
  /\ Alive
  /\ Len(calls) < MaxCalls
  /\ gen' = GenNext(gen)
  /\ Registered(kind, data, GenID(GenNext(gen)))
  /\ UNCHANGED <<wproc, wpanic, gmu, gproc, gids, applyVars, pending, driverVars>>

\* the context of a call is cancelled or times out
CtxDone(c) ==
  /\ Alive
  /\ calls[c].pc \in {"propose", "wait"}
  /\ ~calls[c].ctx
  /\ calls' = [calls EXCEPT ![c].ctx = TRUE]
  /\ UNCHANGED <<waitVars, genVars, applyVars, pending, driverVars>>

\* node.step: case ch <- m: the raft node takes the proposal
ProposeOk(c) ==
  /\ Alive
  /\ calls[c].pc = "propose"
  /\ drv.pc # "exited"
  /\ pending' = pending \cup {calls[c].data}
  /\ calls' = [calls EXCEPT ![c].pc = "wait"]
  /\ UNCHANGED <<waitVars, genVars, applyVars, driverVars>>

\* node.step returns ctx.Err() or ErrStopped
ProposeFails(c) == calls[c].ctx \/ drv.pc = "exited"

\* Do drops the error of Propose and goes on to its select
DoProposeErr(c) ==
  /\ Alive
  /\ calls[c].pc = "propose" /\ calls[c].kind = "Do"
  /\ ProposeFails(c)
  /\ calls' = [calls EXCEPT ![c].pc = "wait"]
  /\ UNCHANGED <<waitVars, genVars, applyVars, pending, driverVars>>

\* configure: if err := s.r.ProposeConfChange(ctx, cc); err != nil {
\*   s.w.Trigger(cc.ID, nil); return err }
ConfigureProposeErr(c) ==
  /\ Alive
  /\ calls[c].pc = "propose" /\ calls[c].kind = "configure"
  /\ ProposeFails(c)
  /\ TriggerLock(c, calls[c].id, "nil")
  /\ calls' = [calls EXCEPT ![c].pc = "gc", ![c].via = "proposeErr"]
  /\ UNCHANGED <<genVars, applyVars, pending, driverVars>>

\* case x := <-ch: the call takes the value the apply loop triggered
CallResult(c) ==
  /\ Alive
  /\ calls[c].pc = "wait"
  /\ Receive(calls[c].ch)
  /\ calls' = [calls EXCEPT ![c].pc = "returned", ![c].via = "result"]
  /\ UNCHANGED <<genVars, applyVars, pending, driverVars>>

\* a select branch that returns without collecting the slot
CtxNoGC(c) == UNCHANGED waitVars

\* case <-ctx.Done(): s.w.Trigger(r.ID, nil) // GC wait
CtxGC(c) == TriggerLock(c, calls[c].id, "nil")

CallCtx(c) ==
  /\ Alive
  /\ calls[c].pc = "wait"
  /\ calls[c].ctx
  /\ CtxGC(c)
  /\ calls' = [calls EXCEPT ![c].pc = "gc", ![c].via = "ctx"]
  /\ UNCHANGED <<genVars, applyVars, pending, driverVars>>

\* the second half of a Trigger, of the apply loop or of a call
DoTriggerSend(p) ==
  /\ Alive
  /\ TriggerSend(p)
  /\ UNCHANGED <<genVars, applyVars, doVars, driverVars>>

\* the call returns after its Trigger(id, nil)
CallReturn(c) ==
  /\ Alive
  /\ calls[c].pc = "gc"
  /\ wproc[c].pc = "idle"
  /\ calls' = [calls EXCEPT ![c].pc = "returned"]
  /\ UNCHANGED <<waitVars, genVars, applyVars, pending, driverVars>>

\* case <-s.done: return ErrStopped
CallStopped(c) ==
  /\ Alive
  /\ calls[c].pc = "wait"
  /\ app.pc = "returned"
  /\ calls' = [calls EXCEPT ![c].pc = "returned", ![c].via = "stopped"]
  /\ UNCHANGED <<waitVars, genVars, applyVars, pending, driverVars>>

\* raft commits a proposal; the caller's return does not take it back
CommitProposal(p) ==
  /\ ~wpanic
  /\ Len(clog) < Len(FreshLog) + MaxCalls
  /\ Commit([Index |-> Len(clog) + 1, Type |-> p.Type, Data |-> p.Data])
  /\ pending' = pending \ {p}
  /\ UNCHANGED <<waitVars, genVars, srv, running, errorc, delayers, hist, calls, driverVars>>

\* the value apply hands to Trigger: the Response of a request, the error
\* of a configuration change
TriggerValue(e, t) ==
  IF e.Type # "EntryNormal" THEN t.err
  ELSE IF t.err = "nil" THEN "Response" ELSE "ResponseErr"

\* history: the apply loop triggers id after the call that registered it
\* has returned on its context; slot is what the Trigger finds in the map
MarkLate(cs, id, slot) ==
  [c \in 1..Len(cs) |->
     IF cs[c].id = id /\ cs[c].pc = "returned" /\ cs[c].via = "ctx"
       THEN [cs[c] EXCEPT !.late = TRUE, !.lateSlot = slot] ELSE cs[c]]

DoApplied(h, e) ==
  /\ srv' = ClearTrig(h.S)
  /\ delayers' = delayers + (IF h.shouldstop THEN 1 ELSE 0)
  /\ IF h.S.trig = <<>>
       THEN UNCHANGED <<waitVars, calls>>
       ELSE /\ TriggerLock(ApplyProc, e.Data.ID, TriggerValue(e, h.S.trig[1]))
            /\ calls' = MarkLate(calls, e.Data.ID, wm[e.Data.ID])

\* EtcdServer.run takes the next committed entry from the driver loop over
\* applyc, applies it and takes the lock of the Trigger for its id
ApplyReady ==
  /\ Alive
  /\ running
  /\ drv.pc = "select"
  /\ wproc[ApplyProc].pc = "idle"
  /\ srv.appliedi < Len(clog)

DoApply ==
  /\ ApplyReady
  /\ app' = [app EXCEPT !.synced = TRUE]
  /\ DoApplied(HandleApply(ClearTrig(srv),
                           Batch(clog, refs, 0, srv.appliedi + 1, srv.appliedi + 1)),
               clog[srv.appliedi + 1])
  /\ UNCHANGED <<genVars, running, errorc, clog, refs, hist, pending, rnode, drv, stable, net,
                 stoppers>>

(***************************************************************************)
(* The consensus driver loop raftNode.run, the raft node that feeds it     *)
(* and EtcdServer.run that takes its batches.                              *)
(*                                                                         *)
(* A Ready is known by its number n.  It carries unstable entries (ents),  *)
(* outbound messages (msgs), possibly a snapshot and a soft state.         *)
(* History, by Ready number: rnode.withSnap (carried a snapshot),          *)
(* rnode.advanced (Advance was called), drv.handed (sent over applyc),     *)
(* drv.dones (apply.done was received); stable.snap is the snapshot on     *)
(* disk, stable.msnap the snapshot in the mirror, stable.mem the entries   *)
(* in the mirror, stable.wal the entries on disk.                          *)
(***************************************************************************)
ReadyItems == 0..MaxReadyItems

SoftStates == {"none", "leader", "follower"}

NewReady(n, ents, msgs, snap, soft) ==
  [n |-> n, ents |-> ents, msgs |-> msgs, snap |-> snap, soft |-> soft]

NoReady == NewReady(0, 0, 0, FALSE, "none")

StopCallers == 1..NumStopCallers

DriverIdle ==
  /\ rnode = [k |-> 0, upd |-> TRUE, adv |-> FALSE,
              withSnap |-> {}, advanced |-> {}, advTwice |-> FALSE]
  /\ drv = [pc |-> "start", rd |-> NoReady, sync |-> FALSE, handed |-> {}, dones |-> {}]
  /\ app = [pc |-> "select", n |-> 0, synced |-> FALSE]
  /\ stable = [wal |-> {}, snap |-> {}, msnap |-> {}, mem |-> {}]
  /\ net = {}
  /\ stoppers = [c \in StopCallers |-> "idle"]

\* the process has not exited through log.Fatalf
Up == drv.pc # "fatal"

\* go s.r.run() has been issued by EtcdServer.run; the goroutine begins with
\* r.stopped = make(chan struct{}); r.done = make(chan struct{})
DriverStart ==
  /\ Up
  /\ drv.pc = "start"
  /\ drv' = [drv EXCEPT !.pc = "select"]
  /\ UNCHANGED <<rnode, app, stable, net, stoppers>>

\* node.run: a tick, a proposal or a message gives the raft node something
\* to report
RaftStep ==
  /\ Up
  /\ drv.pc # "exited"
  /\ ~rnode.upd
  /\ rnode.k < MaxReady
  /\ rnode' = [rnode EXCEPT !.upd = TRUE]
  /\ UNCHANGED <<drv, app, stable, net, stoppers>>

\* syncC = r.s.SyncTicker for a leader, nil otherwise
SyncAfter(sync, soft) ==
  CASE soft = "leader" -> TRUE
    [] soft = "follower" -> FALSE
    [] OTHER -> sync

\* case rd := <-r.Ready(): node.run offers a Ready only when it has updates
\* and the previous one was advanced
DriverReady(ents, msgs, snap, soft) ==
  /\ Up
  /\ drv.pc = "select"
  /\ rnode.upd /\ ~rnode.adv
  /\ rnode.k < MaxReady
  /\ ents + msgs > 0 \/ snap \/ soft # "none"
  /\ rnode' = [rnode EXCEPT !.k = @ + 1, !.upd = FALSE, !.adv = TRUE,
                           !.withSnap = IF snap THEN @ \cup {rnode.k + 1} ELSE @]
  /\ drv' = [drv EXCEPT !.pc = "handoff",
                       !.rd = NewReady(rnode.k + 1, ents, msgs, snap, soft),
                       !.sync = SyncAfter(drv.sync, soft)]
  /\ UNCHANGED <<app, stable, net, stoppers>>

\* case <-syncC: r.s.sync(defaultSyncTimeout) proposes a SYNC request
DriverSync ==
  /\ Up
  /\ drv.pc = "select"
  /\ drv.sync
  /\ ~rnode.upd
  /\ rnode.k < MaxReady
  /\ rnode' = [rnode EXCEPT !.upd = TRUE]
  /\ UNCHANGED <<drv, app, stable, net, stoppers>>

\* the order of the steps of the Ready branch with the send ahead of the
\* saves
StepAfterSendFirst(pc) ==
  CASE pc = "handoff" -> "send"
    [] pc = "send" -> "savesnap"
    [] pc = "savesnap" -> "applysnap"
    [] pc = "applysnap" -> "save"
    [] pc = "save" -> "append"
    [] pc = "append" -> "waitdone"
    [] pc = "waitdone" -> "advance"
    [] OTHER -> "select"

\* the order of the steps of the Ready branch with Advance ahead of the
\* wait for the apply loop
StepAfterAdvanceFirst(pc) ==
  CASE pc = "handoff" -> "savesnap"
    [] pc = "savesnap" -> "applysnap"
    [] pc = "applysnap" -> "save"
    [] pc = "save" -> "append"
    [] pc = "append" -> "send"
    [] pc = "send" -> "advance"
    [] pc = "advance" -> "waitdone"
    [] OTHER -> "select"

\* the order of the steps of the Ready branch with the Append to the
\* mirror ahead of the snapshot
StepAfterAppendFirst(pc) ==
  CASE pc = "handoff" -> "append"
    [] pc = "append" -> "savesnap"
    [] pc = "savesnap" -> "applysnap"
    [] pc = "applysnap" -> "save"
    [] pc = "save" -> "send"
    [] pc = "send" -> "waitdone"
    [] pc = "waitdone" -> "advance"
    [] OTHER -> "select"

\* the order of the steps of the Ready branch
StepAfter(pc) ==
  CASE pc = "handoff" -> "savesnap"
    [] pc = "savesnap" -> "applysnap"
    [] pc = "applysnap" -> "save"
    [] pc = "save" -> "append"
    [] pc = "append" -> "send"
    [] pc = "send" -> "waitdone"
    [] pc = "waitdone" -> "advance"
    [] OTHER -> "select"

\* case r.applyc <- apply: EtcdServer.run receives the batch in its select
DriverHandoff ==
  /\ Up
  /\ drv.pc = "handoff"
  /\ app.pc = "select"
  /\ drv' = [drv EXCEPT !.pc = StepAfter("handoff"), !.handed = @ \cup {drv.rd.n}]
  /\ app' = [pc |-> "working", n |-> drv.rd.n, synced |-> TRUE]
  /\ UNCHANGED <<rnode, stable, net, stoppers>>

\* if !raft.IsEmptySnap(rd.Snapshot) { r.storage.SaveSnap(rd.Snapshot) ...;
\* a failed save ends the process
DriverSaveSnap(ok) ==
  /\ Up
  /\ drv.pc = "savesnap"
  /\ ok \/ drv.rd.snap
  /\ drv' = [drv EXCEPT !.pc = IF ok THEN StepAfter("savesnap") ELSE "fatal"]
  /\ stable' = [stable EXCEPT !.snap = IF ok /\ drv.rd.snap THEN @ \cup {drv.rd.n} ELSE @]
  /\ UNCHANGED <<rnode, app, net, stoppers>>

\* ... r.raftStorage.ApplySnapshot(rd.Snapshot) }: the snapshot reaches the
\* in-memory mirror
DriverApplySnapshot ==
  /\ Up
  /\ drv.pc = "applysnap"
  /\ drv' = [drv EXCEPT !.pc = StepAfter("applysnap")]
  /\ stable' = [stable EXCEPT !.msnap = IF drv.rd.snap THEN @ \cup {drv.rd.n} ELSE @]
  /\ UNCHANGED <<rnode, app, net, stoppers>>

\* r.storage.Save(rd.HardState, rd.Entries); a failed save ends the process
DriverSave(ok) ==
  /\ Up
  /\ drv.pc = "save"
  /\ drv' = [drv EXCEPT !.pc = IF ok THEN StepAfter("save") ELSE "fatal"]
  /\ stable' = [stable EXCEPT !.wal = IF ok THEN @ \cup {drv.rd.n} ELSE @]
  /\ UNCHANGED <<rnode, app, net, stoppers>>

\* r.raftStorage.Append(rd.Entries)
DriverAppend ==
  /\ Up
  /\ drv.pc = "append"
  /\ drv' = [drv EXCEPT !.pc = StepAfter("append")]
  /\ stable' = [stable EXCEPT !.mem = @ \cup {drv.rd.n}]
  /\ UNCHANGED <<rnode, app, net, stoppers>>

\* r.s.send(rd.Messages): the messages of the Ready go to the transport
DriverSend ==
  /\ Up
  /\ drv.pc = "send"
  /\ drv' = [drv EXCEPT !.pc = StepAfter("send")]
  /\ net' = IF drv.rd.msgs > 0 THEN net \cup {drv.rd.n} ELSE net
  /\ UNCHANGED <<rnode, app, stable, stoppers>>

\* EtcdServer.run has recovered the snapshot and applied the entries of the
\* batch and stands at apply.done <- struct{}{}
AppApplied ==
  /\ Up
  /\ app.pc = "working"
  /\ app' = [app EXCEPT !.pc = "notify"]
  /\ UNCHANGED <<rnode, drv, stable, net, stoppers>>

\* <-apply.done in the driver meets apply.done <- struct{}{} in run
DriverWaitDone ==
  /\ Up
  /\ drv.pc = "waitdone"
  /\ app.pc = "notify"
  /\ drv' = [drv EXCEPT !.pc = StepAfter("waitdone"), !.dones = @ \cup {app.n}]
  /\ app' = [app EXCEPT !.pc = "select"]
  /\ UNCHANGED <<rnode, stable, net, stoppers>>

\* r.Advance(): the raft node may offer the next Ready
DriverAdvance ==
  /\ Up
  /\ drv.pc = "advance"
  /\ drv' = [drv EXCEPT !.pc = StepAfter("advance")]
  /\ rnode' = [rnode EXCEPT !.adv = FALSE,
                           !.advTwice = @ \/ drv.rd.n \in rnode.advanced,
                           !.advanced = @ \cup {drv.rd.n}]
  /\ UNCHANGED <<app, stable, net, stoppers>>

\* what the deferred function of EtcdServer.run reads in s.r.stopped: the
\* field is nil until raftNode.run assigns it, and the read is ordered after
\* that assignment only once a batch has come over applyc
StoppedSeen == {"nil", "chan"}

StoppedReadable(seen) ==
  /\ seen = "chan" => drv.pc # "start"
  /\ seen = "nil" => ~app.synced

\* EtcdServer.run returns; its deferred function stands at
\* s.r.stopped <- struct{}{}, which on a nil channel blocks forever
RunReturns(seen) ==
  /\ Up
  /\ app.pc = "select"
  /\ StoppedReadable(seen)
  /\ app' = [app EXCEPT !.pc = IF seen = "nil" THEN "blocked" ELSE "stopping"]

\* case err := <-s.errorc: run returns by itself
AppReturn(seen) ==
  /\ RunReturns(seen)
  /\ UNCHANGED <<rnode, drv, stable, net, stoppers>>

\* case <-r.stopped: return, in the outer select or in the select of the
\* hand-over; the deferred r.stop() stops the node and closes r.done, and
\* the deferred function of EtcdServer.run closes s.done
DriverStopped ==
  /\ Up
  /\ drv.pc \in {"select", "handoff"}
  /\ app.pc = "stopping"
  /\ drv' = [drv EXCEPT !.pc = "exited"]
  /\ app' = [app EXCEPT !.pc = "returned"]
  /\ UNCHANGED <<rnode, stable, net, stoppers>>

(***************************************************************************)
(* EtcdServer.Stop                                                         *)
(***************************************************************************)
\* a task calls Stop after Start and stands at the select of Stop
StopCall(c) ==
  /\ Up
  /\ stoppers[c] = "idle"
  /\ stoppers' = [stoppers EXCEPT ![c] = "select"]
  /\ UNCHANGED <<rnode, drv, app, stable, net>>

\* case s.stop <- struct{}{} meets case <-s.stop of run: run returns and the
\* caller goes on to <-s.done
StopSend(c, seen) ==
  /\ stoppers[c] = "select"
  /\ RunReturns(seen)
  /\ stoppers' = [stoppers EXCEPT ![c] = "wait"]
  /\ UNCHANGED <<rnode, drv, stable, net>>

\* <-s.done, in the select of Stop or after it: s.done has been closed
StopDone(c) ==
  /\ Up
  /\ stoppers[c] \in {"select", "wait"}
  /\ app.pc = "returned"
  /\ stoppers' = [stoppers EXCEPT ![c] = "returned"]
  /\ UNCHANGED <<rnode, drv, app, stable, net>>

\* case <-s.stop: run returns and its deferred function begins the
\* hand-shake with the driver loop
DoStop(seen) ==
  /\ Alive
  /\ running
  /\ wproc[ApplyProc].pc = "idle"
  /\ running' = FALSE
  /\ AppReturn(seen)
  /\ UNCHANGED <<waitVars, genVars, srv, errorc, delayers, clog, refs, hist, doVars>>

(***************************************************************************)
(* EtcdServer.Do from its first statement on (server.go:474-536): the      *)
(* rewrite of a quorum GET, and the switch on the method.  A call that is  *)
(* answered without consensus is kept in calls as returned, with the       *)
(* error and the value it returned in res.                                 *)
(***************************************************************************)
\* a Do that leaves the method as it was given
DoMethodAsGiven(r) == r.Method

\* if r.Method == "GET" && r.Quorum { r.Method = "QGET" }
DoMethod(r) == IF r.Method = "GET" /\ r.Quorum THEN "QGET" ELSE r.Method

\* case "POST", "PUT", "DELETE", "QGET"
ViaConsensus(method) == method \in {"POST", "PUT", "DELETE", "QGET"}

\* store.Watch(path, ...): a watcher on the path; the tree is left alone
StoreWatch(st, p) == Ok(st, "Watcher")

\* case "GET", case "HEAD" and default of the switch
DoLocalResult(st, r) ==
  IF r.Method = "GET"
  THEN (IF r.Wait THEN StoreWatch(st, r.Path) ELSE StoreGet(st, r.Path))
  ELSE IF r.Method = "HEAD" THEN StoreGet(st, r.Path)
  ELSE Fail(st, "ErrUnknownMethod")

LocalCall(id, r, res) ==
  [NewCall("Do", id, 0, Proposal("Do", r, id)) EXCEPT
     !.pc = "returned", !.via = "local", !.res = [err |-> res.err, val |-> res.val]]

DoLocal(r) ==
  /\ Alive
  /\ Len(calls) < MaxCalls
  /\ gen' = GenNext(gen)
  /\ calls' = Append(calls, LocalCall(GenID(GenNext(gen)), r, DoLocalResult(srv.store, r)))
  /\ srv' = [srv EXCEPT !.store = DoLocalResult(srv.store, r).st]
  /\ UNCHANGED <<waitVars, gmu, gproc, gids, running, errorc, delayers, clog, refs, hist,
                 pending, driverVars>>

\* Do(ctx, r) up to its select or to its return
DoSwitch(r) == IF ViaConsensus(r.Method) THEN CallRegister("Do", r) ELSE DoLocal(r)

Do(r) == DoSwitch([r EXCEPT !.Method = DoMethod(r)])

\* the requests Do is called with: every method of the switch, SYNC and a
\* method that does not exist; a GET with and without Quorum and Wait
DoRequestOf(method, quorum, wait) ==
  [Request(0, method, StoreKeysPrefix \o <<"k">>, "a") EXCEPT !.Quorum = quorum, !.Wait = wait]

DispatchRequests ==
  {DoRequestOf(method, FALSE, FALSE) :
     method \in {"POST", "PUT", "DELETE", "QGET", "HEAD", "SYNC", "PATCH"}}
    \cup {DoRequestOf("GET", q, w) : q \in BOOLEAN, w \in BOOLEAN}

(***************************************************************************)
(* The restart of a member as a standalone node (part_000:747-882).        *)
(*                                                                         *)
(* boot holds the WAL that readWAL returns (the entries after the          *)
(* snapshot, the HardState, the id of the member), the snapshot handed to  *)
(* the function, and the outcome: the entries and the commit index given   *)
(* to raft, or the panic.  A ConfChange carries its Context as a set: {}   *)
(* is the nil slice, {m} the marshalled Member m.                          *)
(***************************************************************************)
WalEntry(term, index, type, data) ==
  [Term |-> term, Index |-> index, Type |-> type, Data |-> data]

WalConfChange(type, nodeID, ctx) == [Type |-> type, NodeID |-> nodeID, Context |-> ctx]

\* the Data of an EntryNormal: a marshalled Request, which recovery skips
WalRequest == WalConfChange("Request", None, {})

\* for i, ent := range ents: the entries before the first one above commit
RECURSIVE DiscardUncommitted(_, _)
DiscardUncommitted(ents, commit) ==
  IF ents = <<>> \/ Head(ents).Index > commit THEN <<>>
  ELSE <<Head(ents)>> \o DiscardUncommitted(Tail(ents), commit)

\* getIDs: the loop over the entries; ok is FALSE where the code panics
RECURSIVE getIDsLoop(_, _)
getIDsLoop(ids, ents) ==
  IF ents = <<>> THEN [ok |-> TRUE, ids |-> ids]
  ELSE IF Head(ents).Type # "EntryConfChange" THEN getIDsLoop(ids, Tail(ents))
  ELSE IF Head(ents).Data.Type = "AddNode"
    THEN getIDsLoop(ids \cup {Head(ents).Data.NodeID}, Tail(ents))
  ELSE IF Head(ents).Data.Type = "RemoveNode"
    THEN getIDsLoop(ids \ {Head(ents).Data.NodeID}, Tail(ents))
  ELSE [ok |-> FALSE, ids |-> ids]

getIDsSorted(r) == [ok |-> r.ok, ids |-> SortIDs(r.ids)]

getIDs(snap, ents) ==
  getIDsSorted(getIDsLoop(IF snap.nil THEN {} ELSE snap.Nodes, ents))

\* the Member createConfigChangeEnts marshals for self
DefaultMember(self) == NewMember(self, {"http://localhost:7001", "http://localhost:2380"})

\* a variant that removes self as well
RECURSIVE RemoveEntsAll(_, _, _, _)
RemoveEntsAll(ids, self, term, next) ==
  IF ids = <<>> THEN <<>>
  ELSE <<WalEntry(term, next, "EntryConfChange",
                  WalConfChange("RemoveNode", Head(ids), {}))>>
         \o RemoveEntsAll(Tail(ids), self, term, next + 1)

\* createConfigChangeEnts: the loop over ids, from index next on
RECURSIVE RemoveEnts(_, _, _, _)
RemoveEnts(ids, self, term, next) ==
  IF ids = <<>> THEN <<>>
  ELSE IF Head(ids) = self THEN RemoveEnts(Tail(ids), self, term, next)
  ELSE <<WalEntry(term, next, "EntryConfChange",
                  WalConfChange("RemoveNode", Head(ids), {}))>>
         \o RemoveEnts(Tail(ids), self, term, next + 1)

\* if !found: the entry that adds self, at the index next has reached
AddSelfEnt(ents, self, term, index, found) ==
  IF found THEN ents
  ELSE Append(ents, WalEntry(term, index + 1 + Len(ents), "EntryConfChange",
                             WalConfChange("AddNode", self, {DefaultMember(self)})))

createConfigChangeEnts(ids, self, term, index) ==
  AddSelfEnt(RemoveEnts(ids, self, term, index + 1), self, term, index,
             \E i \in DOMAIN ids : ids[i] = self)

\* restartAsStandaloneNode from the append on: w.Save, st.Commit and what
\* raft.RestartNode is given
RestartDone(wal, kept, toApp, saveOk) ==
  [pc |-> IF saveOk THEN "restarted" ELSE "fatal",
   kept |-> kept, toApp |-> toApp, ents |-> kept \o toApp,
   commit |-> IF ~saveOk \/ kept \o toApp = <<>> THEN wal.commit
              ELSE (kept \o toApp)[Len(kept \o toApp)].Index]

RestartWithIDs(wal, kept, g, saveOk) ==
  IF ~g.ok
  THEN [pc |-> "panicked", kept |-> kept, toApp |-> <<>>, ents |-> kept, commit |-> wal.commit]
  ELSE RestartDone(wal, kept, createConfigChangeEnts(g.ids, wal.self, wal.term, wal.commit),
                   saveOk)

RestartKept(wal, kept, saveOk) == RestartWithIDs(wal, kept, getIDs(wal.snap, kept), saveOk)

restartAsStandaloneNode(wal, saveOk) ==
  RestartKept(wal, DiscardUncommitted(wal.ents, wal.commit), saveOk)

\* ---- the WALs and the arguments the functions are tried with ----
NilSnapshot == [nil |-> TRUE, Index |-> 0, Nodes |-> {}]

WalSnapshots ==
  {NilSnapshot, [nil |-> FALSE, Index |-> 1, Nodes |-> {1, 2}],
   [nil |-> FALSE, Index |-> 1, Nodes |-> {2, 3}]}

\* what an entry of the WAL may carry: a request, or a configuration change
WalData ==
  {WalRequest, WalConfChange("UpdateNode", 2, {NewMember(2, {"u3"})})}
    \cup {WalConfChange("AddNode", id, {NewMember(id, {"u1"})}) : id \in MemberIDs}
    \cup {WalConfChange("RemoveNode", id, {}) : id \in MemberIDs}

WalEntryOf(index, d) ==
  WalEntry(1, index, IF d.Type = "Request" THEN "EntryNormal" ELSE "EntryConfChange", d)

\* the logs of at most n entries from index i on
RECURSIVE WalLogs(_, _)
WalLogs(i, n) ==
  IF n = 0 THEN {<<>>}
  ELSE {<<>>} \cup {<<WalEntryOf(i, d)>> \o rest : d \in WalData, rest \in WalLogs(i + 1, n - 1)}

WalTerms == {1, 2}

\* a WAL: the commit index lies between the snapshot and the last entry
WALs ==
  {w \in [self : {1, 2}, snap : WalSnapshots, ents : WalLogs(1, MaxWalEntries) \cup WalLogs(2, MaxWalEntries),
          commit : 0..(MaxWalEntries + 1), term : WalTerms] :
     /\ w.ents # <<>> => w.ents[1].Index = w.snap.Index + 1
     /\ w.snap.Index <= w.commit /\ w.commit <= w.snap.Index + Len(w.ents)}

NoWAL == [self |-> None, snap |-> NilSnapshot, ents |-> <<>>, commit |-> 0, term |-> 0]

NoRestart == [pc |-> "none", kept |-> <<>>, toApp |-> <<>>, ents |-> <<>>, commit |-> 0]

\* the id sequences createConfigChangeEnts is called with: every order of
\* every set of ids
IDSeqs ==
  {ids \in UNION {[1..n -> MemberIDs] : n \in 0..Cardinality(MemberIDs)} :
     \A i, j \in DOMAIN ids : i # j => ids[i] # ids[j]}

CreateArgs == [ids : IDSeqs, self : MemberIDs, term : WalTerms, index : 0..MaxWalEntries]

NoArgs == [ids |-> <<>>, self |-> None, term |-> 0, index |-> 0]

BootIdle == [pc |-> "none", wal |-> NoWAL, res |-> NoRestart, args |-> NoArgs, created |-> <<>>]

PubIdle == [pc |-> "none", attempts |-> 0, call |-> 0, err |-> "none"]

StartIdle == boot = BootIdle /\ pub = PubIdle /\ snp = SnpIdle /\ NodeIdle

(***************************************************************************)
(* EtcdServer.publish (server.go:643-676): the goroutine start() runs to   *)
(* register the attributes of the member.  pub holds its position: "loop"  *)
(* at the head of the for loop, "do" inside s.Do, "published" and          *)
(* "aborted" after its two returns; attempts counts the calls of Do, call  *)
(* is the current one and err the error the last one returned.             *)
(***************************************************************************)
\* req: the PUT of the attributes under the member's own key
PublishReq == Request(0, "PUT", MemberAttributesStorePath(1), MarshalAttributes("n1"))

\* the error Do returns to its caller: resp.err of the Response taken from
\* the channel, parseCtxErr(ctx.Err()), or ErrStopped
DoErr(c) ==
  IF calls[c].via = "stopped" THEN "ErrStopped"
  ELSE IF calls[c].via = "ctx" THEN "ErrTimeout"
  ELSE IF chans[calls[c].ch].got = <<"Response">> THEN "nil" ELSE "resp.err"

\* a publish that gives up at the first error
PublishSwitchOnce(err) == IF err = "nil" THEN "published" ELSE "aborted"

\* switch err: return on nil and on ErrStopped, loop on any other error
PublishSwitch(err) ==
  IF err = "nil" THEN "published" ELSE IF err = "ErrStopped" THEN "aborted" ELSE "loop"

PublishStart == [pc |-> "loop", attempts |-> 0, call |-> 0, err |-> "none"]

\* ctx := context.WithTimeout(...); s.Do(ctx, req) up to the Register
PublishDo ==
  /\ pub.pc = "loop"
  /\ CallRegister("Do", PublishReq)
  /\ pub' = [pub EXCEPT !.pc = "do", !.call = Len(calls) + 1, !.attempts = @ + 1]
  /\ UNCHANGED <<boot, snp, nd, ncalls>>

\* the retry interval of the attempt expires; the last attempt the model
\* follows is one whose proposal is applied in time
PublishTimeout ==
  /\ pub.pc = "do"
  /\ pub.attempts < MaxCalls
  /\ CtxDone(pub.call)
  /\ UNCHANGED startVars

\* Do has returned: cancel() and the switch on its error
PublishReturned ==
  /\ Alive
  /\ pub.pc = "do"
  /\ calls[pub.call].pc = "returned"
  /\ pub' = [pub EXCEPT !.pc = PublishSwitch(DoErr(pub.call)), !.err = DoErr(pub.call)]
  /\ UNCHANGED <<waitVars, genVars, applyVars, doVars, driverVars, boot, snp, nd, ncalls>>

\* the member is started with -force-new-cluster over a WAL
Restart(saveOk) ==
  /\ boot.pc = "wal"
  /\ boot' = [boot EXCEPT !.pc = "done", !.res = restartAsStandaloneNode(boot.wal, saveOk)]
  /\ UNCHANGED <<pub, snp, nd, ncalls>>

\* a call of createConfigChangeEnts
CreateEnts ==
  /\ boot.pc = "args"
  /\ boot' = [boot EXCEPT !.pc = "created",
                          !.created = createConfigChangeEnts(boot.args.ids, boot.args.self,
                                                             boot.args.term, boot.args.index)]
  /\ UNCHANGED <<pub, snp, nd, ncalls>>

(***************************************************************************)
(* SpecWait                                                                *)
(***************************************************************************)
InitWait == WaitInit /\ GenIdle /\ ApplyIdle /\ DoIdle /\ DriverIdle /\ StartIdle

NextWait ==
  \/ \E id \in WaitIDs : Register(id) /\ UNCHANGED notWaitVars
  \/ \E p \in WaitProcs, id \in WaitIDs, x \in WaitValues :
       TriggerLock(p, id, x) /\ UNCHANGED notWaitVars
  \/ \E p \in WaitProcs : TriggerSend(p) /\ UNCHANGED notWaitVars
  \/ \E c \in 1..MaxChans : Receive(c) /\ UNCHANGED notWaitVars

SpecWait == InitWait /\ [][NextWait]_vars

(***************************************************************************)
(* SpecGen                                                                 *)
(***************************************************************************)
InitGen == GenInit /\ WaitInit /\ ApplyIdle /\ DoIdle /\ DriverIdle /\ StartIdle

NextGen ==
  \/ \E p \in GenProcs : GenLock(p) /\ UNCHANGED notGenVars
  \/ \E p \in GenProcs : GenRead(p) /\ UNCHANGED notGenVars
  \/ \E p \in GenProcs : GenWrite(p) /\ UNCHANGED notGenVars
  \/ \E p \in GenProcs : GenUnlock(p) /\ UNCHANGED notGenVars

SpecGen == InitGen /\ [][NextGen]_vars

(***************************************************************************)
(* SpecApply                                                               *)
(***************************************************************************)
InitApply == ApplyInit /\ WaitInit /\ GenIdle /\ DoIdle /\ DriverIdle /\ StartIdle

NextApply ==
  \/ /\ running /\ ~srv.panicked /\ Followed
     /\ \E new \in NewEntries(Len(clog) + 1, NewEntryRoom) :
          Deliver(new) /\ UNCHANGED notApplyVars
  \/ StopWithDelay /\ UNCHANGED notApplyVars
  \/ RunErrorc /\ UNCHANGED notApplyVars

SpecApply == InitApply /\ [][NextApply]_vars

\* the goroutine of stopWithDelay and the select of run are scheduled in
\* the end; the batches are left to the environment
ApplyFairness ==
  /\ WF_vars(StopWithDelay /\ UNCHANGED notApplyVars)
  /\ WF_vars(RunErrorc /\ UNCHANGED notApplyVars)

SpecApplyFair == SpecApply /\ ApplyFairness

(***************************************************************************)
(* SpecDo                                                                  *)
(***************************************************************************)
InitDo == DoInit /\ ApplyIdle /\ DriverIdle /\ StartIdle

NextDo ==
  \/ \E r \in DoRequests : CallRegister("Do", r) /\ UNCHANGED startVars
  \/ \E cc \in ConfigureChanges : CallRegister("configure", cc) /\ UNCHANGED startVars
  \/ \E c \in 1..Len(calls) : CtxDone(c) /\ UNCHANGED startVars
  \/ \E c \in 1..Len(calls) : ProposeOk(c) /\ UNCHANGED startVars
  \/ \E c \in 1..Len(calls) : DoProposeErr(c) /\ UNCHANGED startVars
  \/ \E c \in 1..Len(calls) : ConfigureProposeErr(c) /\ UNCHANGED startVars
  \/ \E c \in 1..Len(calls) : CallResult(c) /\ UNCHANGED startVars
  \/ \E c \in 1..Len(calls) : CallCtx(c) /\ UNCHANGED startVars
  \/ \E p \in {ApplyProc} \cup Callers : DoTriggerSend(p) /\ UNCHANGED startVars
  \/ \E c \in 1..Len(calls) : CallReturn(c) /\ UNCHANGED startVars
  \/ \E c \in 1..Len(calls) : CallStopped(c) /\ UNCHANGED startVars
  \/ \E p \in pending : CommitProposal(p) /\ UNCHANGED startVars
  \/ DoApply /\ UNCHANGED startVars
  \/ \E seen \in StoppedSeen : DoStop(seen) /\ UNCHANGED startVars
  \/ Alive /\ DriverStart /\ UNCHANGED notDriverVars
  \/ Alive /\ DriverStopped /\ UNCHANGED notDriverVars

SpecDo == InitDo /\ [][NextDo]_vars

\* the steps the goroutines of the calls, of the Triggers and of the driver
\* loop take when they are scheduled; cancellations, proposals taken by
\* raft, commits, the arrival of batches and the stop of the server are left
\* to the environment
DoProgress ==
  \/ \E c \in 1..Len(calls) : DoProposeErr(c) /\ UNCHANGED startVars
  \/ \E c \in 1..Len(calls) : ConfigureProposeErr(c) /\ UNCHANGED startVars
  \/ \E c \in 1..Len(calls) : CallResult(c) /\ UNCHANGED startVars
  \/ \E c \in 1..Len(calls) : CallCtx(c) /\ UNCHANGED startVars
  \/ \E c \in 1..Len(calls) : CallReturn(c) /\ UNCHANGED startVars
  \/ \E c \in 1..Len(calls) : CallStopped(c) /\ UNCHANGED startVars
  \/ \E p \in {ApplyProc} \cup Callers : DoTriggerSend(p) /\ UNCHANGED startVars
  \/ Alive /\ DriverStart /\ UNCHANGED notDriverVars
  \/ Alive /\ DriverStopped /\ UNCHANGED notDriverVars

\* a runnable goroutine is scheduled in the end
DoFairness == WF_vars(DoProgress)

SpecDoFair == SpecDo /\ DoFairness

(***************************************************************************)
(* SpecDriver                                                              *)
(***************************************************************************)
InitDriver == DriverIdle /\ WaitInit /\ GenIdle /\ ApplyIdle /\ DoIdle /\ StartIdle

NextDriver ==
  \/ DriverStart /\ UNCHANGED notDriverVars
  \/ RaftStep /\ UNCHANGED notDriverVars
  \/ \E ents \in ReadyItems, msgs \in ReadyItems, snap \in BOOLEAN, soft \in SoftStates :
       DriverReady(ents, msgs, snap, soft) /\ UNCHANGED notDriverVars
  \/ DriverSync /\ UNCHANGED notDriverVars
  \/ DriverHandoff /\ UNCHANGED notDriverVars
  \/ \E ok \in BOOLEAN : DriverSaveSnap(ok) /\ UNCHANGED notDriverVars
  \/ DriverApplySnapshot /\ UNCHANGED notDriverVars
  \/ \E ok \in BOOLEAN : DriverSave(ok) /\ UNCHANGED notDriverVars
  \/ DriverAppend /\ UNCHANGED notDriverVars
  \/ DriverSend /\ UNCHANGED notDriverVars
  \/ AppApplied /\ UNCHANGED notDriverVars
  \/ DriverWaitDone /\ UNCHANGED notDriverVars
  \/ DriverAdvance /\ UNCHANGED notDriverVars
  \/ \E seen \in StoppedSeen : AppReturn(seen) /\ UNCHANGED notDriverVars
  \/ DriverStopped /\ UNCHANGED notDriverVars

SpecDriver == InitDriver /\ [][NextDriver]_vars

(***************************************************************************)
(* SpecStop: the driver loop, EtcdServer.run and the callers of Stop       *)
(***************************************************************************)
NextStop ==
  \/ NextDriver
  \/ \E c \in StopCallers : StopCall(c) /\ UNCHANGED notDriverVars
  \/ \E c \in StopCallers, seen \in StoppedSeen : StopSend(c, seen) /\ UNCHANGED notDriverVars
  \/ \E c \in StopCallers : StopDone(c) /\ UNCHANGED notDriverVars

\* the steps the goroutines of the driver loop, of run and of the callers
\* of Stop take when they are scheduled; what raft reports, an error on
\* errorc and the calls of Stop are left to the environment
StopProgress ==
  \/ DriverStart /\ UNCHANGED notDriverVars
  \/ \E ents \in ReadyItems, msgs \in ReadyItems, snap \in BOOLEAN, soft \in SoftStates :
       DriverReady(ents, msgs, snap, soft) /\ UNCHANGED notDriverVars
  \/ DriverHandoff /\ UNCHANGED notDriverVars
  \/ \E ok \in BOOLEAN : DriverSaveSnap(ok) /\ UNCHANGED notDriverVars
  \/ DriverApplySnapshot /\ UNCHANGED notDriverVars
  \/ \E ok \in BOOLEAN : DriverSave(ok) /\ UNCHANGED notDriverVars
  \/ DriverAppend /\ UNCHANGED notDriverVars
  \/ DriverSend /\ UNCHANGED notDriverVars
  \/ AppApplied /\ UNCHANGED notDriverVars
  \/ DriverWaitDone /\ UNCHANGED notDriverVars
  \/ DriverAdvance /\ UNCHANGED notDriverVars
  \/ DriverStopped /\ UNCHANGED notDriverVars
  \/ \E c \in StopCallers, seen \in StoppedSeen : StopSend(c, seen) /\ UNCHANGED notDriverVars
  \/ \E c \in StopCallers : StopDone(c) /\ UNCHANGED notDriverVars

\* a runnable goroutine is scheduled in the end
StopFairness == WF_vars(StopProgress)

SpecStop == InitDriver /\ [][NextStop]_vars /\ StopFairness

(***************************************************************************)
(* SpecRestart: a member restarted as a standalone node over any WAL, and  *)
(* createConfigChangeEnts over any arguments                               *)
(***************************************************************************)
InitRestart ==
  /\ WaitInit /\ GenIdle /\ ApplyIdle /\ DoIdle /\ DriverIdle
  /\ pub = PubIdle
  /\ snp = SnpIdle
  /\ NodeIdle
  /\ \/ \E w \in WALs : boot = [BootIdle EXCEPT !.pc = "wal", !.wal = w]
     \/ \E a \in CreateArgs : boot = [BootIdle EXCEPT !.pc = "args", !.args = a]

notStartVars == <<waitVars, genVars, applyVars, doVars, driverVars>>

NextRestart ==
  \/ \E saveOk \in BOOLEAN : Restart(saveOk) /\ UNCHANGED notStartVars
  \/ CreateEnts /\ UNCHANGED notStartVars

SpecRestart == InitRestart /\ [][NextRestart]_vars

(***************************************************************************)
(* SpecSnapshot: EtcdServer.run taken batch by batch, with the hand-over   *)
(* of done and the snapshot trigger as steps of their own                  *)
(***************************************************************************)
notSnapVars == <<waitVars, genVars, doVars, driverVars, boot, pub, nd, ncalls>>

InitSnapshot ==
  /\ ApplyInit /\ WaitInit /\ GenIdle /\ DoIdle /\ DriverIdle
  /\ boot = BootIdle /\ pub = PubIdle /\ snp = SnpIdle /\ NodeIdle

NextSnapshot ==
  \/ \E new \in NewEntries(Len(clog) + 1, NewEntryRoom) :
       SnapReceive(new) /\ UNCHANGED notSnapVars
  \/ SnapAppend /\ UNCHANGED notSnapVars
  \/ SnapDone /\ UNCHANGED notSnapVars
  \/ SnapTrigger /\ UNCHANGED notSnapVars
  \/ SnapErrorc /\ UNCHANGED notSnapVars
  \/ SnapStopWithDelay /\ UNCHANGED notSnapVars

SpecSnapshot == InitSnapshot /\ [][NextSnapshot]_vars

(***************************************************************************)
(* SpecCompact: the snapshot goroutines over the raft storage, for         *)
(* snapshot indexes around numberOfCatchUpEntries.  The storage holds      *)
(* every index a goroutine is launched with.                               *)
(***************************************************************************)
InitCompact ==
  /\ ApplyIdle /\ WaitInit /\ GenIdle /\ DoIdle /\ DriverIdle
  /\ boot = BootIdle /\ pub = PubIdle /\ NodeIdle
  /\ \E ts \in TaskSeqs, si \in StorageSnaps, fi \in StorageFirsts :
       snp = [SnpIdle EXCEPT !.tasks = ts, !.snapIndex = si, !.first = fi,
                             !.stored = 2 * numberOfCatchUpEntries + 1]

NextCompact ==
  \/ \E i \in 1..MaxTasks : TaskCreate(i) /\ UNCHANGED notSnapVars
  \/ \E i \in 1..MaxTasks, ok \in BOOLEAN : TaskSaveSnap(i, ok) /\ UNCHANGED notSnapVars
  \/ \E i \in 1..MaxTasks : TaskCompact(i) /\ UNCHANGED notSnapVars

SpecCompact == InitCompact /\ [][NextCompact]_vars

(***************************************************************************)
(* SpecSnapRace: EtcdServer.run, raftNode.run and the snapshot goroutines  *)
(* side by side, for member 1 of the new cluster behind a log long enough  *)
(* for two snapshots                                                       *)
(***************************************************************************)
RaceLog ==
  FreshLog \o
  [i \in 1..(2 * SnapCount) |->
     NormalEntry(i + Len(FreshLog),
                 Request(0, "PUT", StoreKeysPrefix \o <<"k">>, IF i % 2 = 1 THEN "a" ELSE "b"))]

InitSnapRace ==
  /\ srv = InitServer(1, FreshMembers, 0, {1, 2})
  /\ clog = RaceLog
  /\ refs = RefStates(InitServer(None, FreshMembers, 0, {}), RaceLog)
  /\ running = TRUE /\ errorc = 0 /\ delayers = 0 /\ hist = HistInit
  /\ WaitInit /\ GenIdle /\ DoIdle /\ DriverIdle
  /\ boot = BootIdle /\ pub = PubIdle /\ snp = SnpIdle /\ NodeIdle

\* raft restores a snapshot only above its commit index, which is the last
\* index of the raft storage once the driver has appended: the Ready carries
\* no snapshot at or below it
RaceReceive ==
  /\ Followed
  /\ \E s \in 0..Len(clog), t \in 0..Len(clog) :
       /\ s # 0 => s > snp.stored
       /\ \E f \in FirstIndexes(BaseIndex(srv, s), Len(clog)) :
            RunReceive(clog, refs, s, f, t)

NextSnapRace ==
  \/ RaceReceive /\ UNCHANGED notSnapVars
  \/ SnapAppend /\ UNCHANGED notSnapVars
  \/ SnapDone /\ UNCHANGED notSnapVars
  \/ SnapTrigger /\ UNCHANGED notSnapVars
  \/ \E i \in 1..Len(snp.tasks) : TaskCreate(i) /\ UNCHANGED notSnapVars
  \/ \E i \in 1..Len(snp.tasks), ok \in BOOLEAN : TaskSaveSnap(i, ok) /\ UNCHANGED notSnapVars
  \/ \E i \in 1..Len(snp.tasks) : TaskCompact(i) /\ UNCHANGED notSnapVars

SpecSnapRace == InitSnapRace /\ [][NextSnapRace]_vars

(***************************************************************************)
(* SpecNode: node.run and the callers of the methods of the node           *)
(***************************************************************************)
notNodeVars == <<waitVars, genVars, applyVars, doVars, driverVars, boot, pub, snp>>

InitNode ==
  /\ WaitInit /\ GenIdle /\ ApplyIdle /\ DoIdle /\ DriverIdle
  /\ boot = BootIdle /\ pub = PubIdle /\ snp = SnpIdle
  /\ NodeIdle

\* the steps of node.run and the returns through n.done
NodeProgress ==
  \/ \E c \in NodeCallers : NodeProp(c) /\ UNCHANGED notNodeVars
  \/ \E c \in NodeCallers, lead \in NodeLeads, upd \in BOOLEAN :
       NodeRecv(c, lead, upd) /\ UNCHANGED notNodeVars
  \/ \E c \in NodeCallers, lead \in NodeLeads, upd \in BOOLEAN :
       NodeTick(c, lead, upd) /\ UNCHANGED notNodeVars
  \/ \E c \in NodeCallers : NodeConf(c) /\ UNCHANGED notNodeVars
  \/ \E c \in NodeCallers : NodeConfState(c) /\ UNCHANGED notNodeVars
  \/ \E c \in NodeCallers : NodeAdvance(c) /\ UNCHANGED notNodeVars
  \/ \E c \in NodeCallers : NodeStatus(c) /\ UNCHANGED notNodeVars
  \/ \E c \in NodeCallers : NodeStop(c) /\ UNCHANGED notNodeVars
  \/ \E c \in NodeCallers : CallDone(c) /\ UNCHANGED notNodeVars

NextNode ==
  \/ NodeProgress
  \/ \E c \in NodeCallers, k \in NodeKinds : NodeCall(c, k) /\ UNCHANGED notNodeVars
  \/ NodeReady /\ UNCHANGED notNodeVars
  \/ \E c \in NodeCallers : NodeCallCtx(c) /\ UNCHANGED notNodeVars

\* node.run and the callers are scheduled in the end; the calls, the
\* reader of Ready() and the contexts are left to the environment
NodeFairness == WF_vars(NodeProgress)

SpecNode == InitNode /\ [][NextNode]_vars

SpecNodeFair == SpecNode /\ NodeFairness

(***************************************************************************)
(* SpecPublish: publish over the gateway, the apply loop and the stop of   *)
(* the server                                                              *)
(***************************************************************************)
InitPublish ==
  DoInit /\ ApplyIdle /\ DriverIdle /\ boot = BootIdle /\ pub = PublishStart /\ snp = SnpIdle /\ NodeIdle

NextPublish ==
  \/ PublishDo
  \/ PublishTimeout
  \/ PublishReturned
  \/ \E c \in 1..Len(calls) : ProposeOk(c) /\ UNCHANGED startVars
  \/ \E c \in 1..Len(calls) : DoProposeErr(c) /\ UNCHANGED startVars
  \/ \E c \in 1..Len(calls) : CallResult(c) /\ UNCHANGED startVars
  \/ \E c \in 1..Len(calls) : CallCtx(c) /\ UNCHANGED startVars
  \/ \E p \in {ApplyProc} \cup Callers : DoTriggerSend(p) /\ UNCHANGED startVars
  \/ \E c \in 1..Len(calls) : CallReturn(c) /\ UNCHANGED startVars
  \/ \E c \in 1..Len(calls) : CallStopped(c) /\ UNCHANGED startVars
  \/ \E p \in pending : CommitProposal(p) /\ UNCHANGED startVars
  \/ DoApply /\ UNCHANGED startVars
  \/ \E seen \in StoppedSeen : DoStop(seen) /\ UNCHANGED startVars
  \/ Alive /\ DriverStart /\ UNCHANGED notDriverVars
  \/ Alive /\ DriverStopped /\ UNCHANGED notDriverVars

\* the goroutines of publish, of the Triggers and of the driver loop are
\* scheduled in the end, and raft takes and commits what is proposed; the
\* timeouts and the stop of the server are left to the environment
PublishProgress ==
  \/ PublishDo
  \/ PublishReturned
  \/ \E c \in 1..Len(calls) : ProposeOk(c) /\ UNCHANGED startVars
  \/ \E c \in 1..Len(calls) : DoProposeErr(c) /\ UNCHANGED startVars
  \/ \E c \in 1..Len(calls) : CallResult(c) /\ UNCHANGED startVars
  \/ \E c \in 1..Len(calls) : CallCtx(c) /\ UNCHANGED startVars
  \/ \E p \in {ApplyProc} \cup Callers : DoTriggerSend(p) /\ UNCHANGED startVars
  \/ \E c \in 1..Len(calls) : CallReturn(c) /\ UNCHANGED startVars
  \/ \E c \in 1..Len(calls) : CallStopped(c) /\ UNCHANGED startVars
  \/ \E p \in pending : CommitProposal(p) /\ UNCHANGED startVars
  \/ Alive /\ DriverStart /\ UNCHANGED notDriverVars
  \/ Alive /\ DriverStopped /\ UNCHANGED notDriverVars

\* EtcdServer.run takes in the end the committed entry it is ready for.
\* Every DoApply step changes the state and the log is finite, so this is
\* weak fairness of DoApply, stated through its enabling condition.
PublishFairness == WF_vars(PublishProgress) /\ []<>(~ApplyReady)

SpecPublish == InitPublish /\ [][NextPublish]_vars /\ PublishFairness

(***************************************************************************)
(* SpecDispatch: Do called with every method, raft and the apply loop      *)
(***************************************************************************)
NextDispatch ==
  \/ \E r \in DispatchRequests : Do(r) /\ UNCHANGED startVars
  \/ \E c \in 1..Len(calls) : ProposeOk(c) /\ UNCHANGED startVars
  \/ \E p \in pending : CommitProposal(p) /\ UNCHANGED startVars
  \/ DoApply /\ UNCHANGED startVars
  \/ \E p \in {ApplyProc} \cup Callers : DoTriggerSend(p) /\ UNCHANGED startVars
  \/ \E c \in 1..Len(calls) : CallResult(c) /\ UNCHANGED startVars
  \/ Alive /\ DriverStart /\ UNCHANGED notDriverVars

SpecDispatch == InitDo /\ [][NextDispatch]_vars

(***************************************************************************)
(* C2: a receiver obtained from Register(id) yields exactly the value of   *)
(* the first Trigger(id, v) that follows the registration, exactly once;   *)
(* a later Trigger for the id delivers nothing; the slot is out of the map *)
(* before the value is sent.                                               *)
(***************************************************************************)
TriggerInFlight(c) == \E p \in WaitProcs : wproc[p].pc = "send" /\ wproc[p].ch = c

C2_TriggerDeliversOnce ==
  /\ ~wpanic
  /\ \A c \in 1..Len(chans) :
       /\ Len(chans[c].sent) <= 1
       /\ chans[c].sent # <<>> => chans[c].sent[1] = chans[c].first
       /\ chans[c].sent # <<>> => wm[chans[c].id] # c
       /\ TriggerInFlight(c) => wm[chans[c].id] # c
       /\ chans[c].first # NoValue /\ ~TriggerInFlight(c) => Len(chans[c].sent) = 1
       /\ \A i \in 1..Len(chans[c].got) : chans[c].got[i] = chans[c].first
       /\ Len(chans[c].got) <= 1

\* a receiver took the triggered value, a later Trigger for the same id found
\* no slot, and the id has been registered afresh
C2_Witness ==
  \E c, d \in 1..Len(chans) :
    /\ c < d
    /\ chans[c].id = chans[d].id
    /\ chans[c].got = <<"x">>
    /\ chans[d].first = "y"
    /\ chans[d].got = <<"y">>

(***************************************************************************)
(* C8: any two values returned by Next() of one Generator differ, for      *)
(* every pair of calls within the first 2^suffixLen - 1 calls.             *)
(***************************************************************************)
C8_NextUnique ==
  \A i, j \in 1..Min(Len(gids), Pow2(suffixLen) - 1) : i # j => gids[i] # gids[j]

\* the suffix carried out of the counter field into the timestamp field, the
\* last call of the window has returned its id, and another caller is idle
C8_Witness ==
  /\ Len(gids) >= Pow2(cntLen) + 1
  /\ \E p, q \in GenProcs : p # q /\ gproc[p].pc = "unlock" /\ gproc[q].pc = "idle"
  /\ Len(gids) = Pow2(suffixLen) - 1

(***************************************************************************)
(* The apply loop (SpecApply)                                              *)
(***************************************************************************)
Tombstoned(st, x) == removedMemberStoreKey(x) \in DOMAIN st.nodes

\* C3: over any sequence of apply batches, overlapping and snapshot
\* batches included, the indices of the entries handed to apply are
\* strictly increasing: none is applied twice, none after a larger one.
C3_AppliedStrictlyIncreasing == ~hist.outOfOrder

\* C4: a batch whose entries all lie at or below the applied index is a
\* no-op: the store (and with it the persisted membership), the cluster
\* cache and the applied index are as they were before it.
C4_ReplayIsNoOp ==
  [][hist'.kind = "replay" =>
       /\ srv'.store = srv.store
       /\ srv'.members = srv.members
       /\ srv'.removed = srv.removed
       /\ srv'.appliedi = srv.appliedi]_vars

\* C5: the store reached by recovering the snapshot taken at index s and
\* applying the entries s+1..n equals the store of a member that applied
\* the entries 1..n in order from the empty store.
C5_SnapshotThenEntries ==
  hist.kind = "snapshot" => srv.store = RefAt(hist.n).store

\* a snapshot below n was recovered and the entries up to n applied on it
C5_Witness ==
  /\ hist.kind = "snapshot"
  /\ srv.rindex = hist.n
  /\ srv.appliedi = hist.n
  /\ srv.store = RefAt(hist.n).store
  /\ srv.store # RefAt(hist.n - 1).store
  /\ srv.store # StoreNew

\* C6: after any sequence of validated Add / Remove / Update configuration
\* changes, no id is both a member and removed, and no two distinct members
\* share a PeerURL, in the cluster cache and in the persisted membership.
DisjointAndUnique(members, removed) ==
  /\ (DOMAIN members) \cap removed = {}
  /\ \A i, j \in DOMAIN members :
       i # j => members[i].PeerURLs \cap members[j].PeerURLs = {}

C6_ClusterViewConsistent ==
  /\ DisjointAndUnique(srv.members, srv.removed)
  /\ membersFromStore(srv.store).ok =>
       DisjointAndUnique(membersFromStore(srv.store).members, membersFromStore(srv.store).removed)

\* an Update moved a member to a new url after Adds and a Remove were applied
C6_Witness ==
  /\ ~srv.panicked
  /\ srv.cindex > BaseLen
  /\ \E i \in DOMAIN srv.members : srv.members[i].PeerURLs = {"u3"} /\ i # 3
  /\ membersFromStore(srv.store).removed # {}
  /\ Cardinality(DOMAIN srv.members) >= 2

\* C7: once a Remove of x has been applied, every Add, Remove or Update of x
\* is rejected with IDRemoved, and x stays in the removed set and out of
\* the members, of the cache and of the persisted membership.
RemoveApplied(x) ==
  /\ Tombstoned(srv.store, x)
  /\ \E k \in 1..Len(clog) :
       /\ k <= srv.rindex
       /\ clog[k].Type = "EntryConfChange"
       /\ clog[k].Data.Type = "RemoveNode"
       /\ clog[k].Data.NodeID = x

C7_RemovedStaysRemoved ==
  \A x \in MemberIDs :
    RemoveApplied(x) =>
      /\ x \in srv.removed
      /\ x \notin DOMAIN srv.members
      /\ x \notin DOMAIN membersFromStore(srv.store).members
      /\ \A cc \in ConfChanges :
           cc.NodeID = x => ValidateConfigurationChange(srv.store, cc) = "ErrIDRemoved"

\* C9: whenever a consensus-routed Do call or a configure call has
\* returned, for whatever reason (result delivered, context cancelled or
\* timed out, proposal error, server stopped), the wait registry holds no
\* slot for the id of that call.
C9_NoLeakAfterReturn ==
  \A c \in 1..Len(calls) : calls[c].pc = "returned" => wm[calls[c].id] = 0

\* C10: when a call has returned on its context and its entry is committed
\* and applied afterwards, the Trigger of the apply loop finds no slot for
\* the id, nothing but the nil of the call's own Trigger was ever sent on
\* the call's channel and nobody received from it, the apply loop is never
\* held at the send of a Trigger, and the store of the server is the store
\* of a member that applied the same log.
C10_CancelDoesNotRetract ==
  /\ \A c \in 1..Len(calls) :
       calls[c].late =>
         /\ calls[c].lateSlot = 0
         /\ chans[calls[c].ch].sent = <<"nil">>
         /\ chans[calls[c].ch].got = <<>>
  /\ wproc[ApplyProc].pc = "send" => ~SendBlocks(wproc[ApplyProc].ch)
  /\ ~srv.panicked => srv.store = RefAt(srv.appliedi).store

C10_Witness ==
  \E c \in 1..Len(calls) :
    /\ calls[c].late /\ calls[c].kind = "Do"
    /\ wproc[ApplyProc].pc = "idle"
    /\ srv.appliedi = Len(clog)
    /\ StoreGet(srv.store, calls[c].data.Data.Path).val = calls[c].data.Data.Val
    /\ StoreGet(RefAt(srv.appliedi - 1).store, calls[c].data.Data.Path).err = "KeyNotFound"

\* C1: for every Ready handled by the driver loop, Storage.Save of its hard
\* state and unstable entries has completed before any of its messages is
\* handed to the transport, whatever EtcdServer.run is doing meanwhile.
C1_SaveBeforeSend == net \subseteq stable.wal

C1_Witness ==
  /\ drv.rd.n \in net
  /\ drv.rd.ents > 0 /\ drv.rd.msgs > 0
  /\ drv.pc = "waitdone"
  /\ app.pc = "working" /\ app.n = drv.rd.n

(***************************************************************************)
(* C11: every consensus-routed Do call eventually returns once its entry   *)
(* has been applied locally, its context is done, or the server has        *)
(* stopped: no call that is pending when run returns stays blocked for     *)
(* ever.                                                                   *)
(***************************************************************************)
DoPending(c) ==
  /\ c \in 1..Len(calls)
  /\ calls[c].kind = "Do"
  /\ calls[c].pc # "returned"

\* the entry that carries the id of the call has been applied here
AppliedLocally(c) ==
  \E i \in 1..Len(clog) : clog[i].Data.ID = calls[c].id /\ i <= srv.appliedi

DoMayReturn(c) == AppliedLocally(c) \/ calls[c].ctx \/ ~running

DoReturned(c) == c \in 1..Len(calls) /\ calls[c].pc = "returned"

C11_DoEventuallyReturns ==
  \A c \in Callers :
    (DoPending(c) /\ DoMayReturn(c)) ~> (DoReturned(c) \/ ~Alive)

(***************************************************************************)
(* C12: ValidateConfigurationChange judges a change against the membership *)
(* persisted in the store: IDRemoved if the target is tombstoned, whatever *)
(* the type, and before anything else; IDExists for an Add of a live       *)
(* member; IDNotFound for a Remove or Update of an ID that is not live;    *)
(* PeerURLExists for an Add one of whose URLs a live member uses, and for  *)
(* an Update one of whose URLs a live member other than the target uses;   *)
(* nil otherwise.                                                          *)
(***************************************************************************)
LiveIDs(st) == {mustParseMemberIDFromKey(d) : d \in MemberDirs(st)}

LiveURLs(st, id) ==
  UnmarshalRaftAttributes(st.nodes[memberStoreKey(id) \o <<raftAttributesSuffix>>].val)

UsedByLive(st, ids, urls) == \E m \in ids : LiveURLs(st, m) \cap urls # {}

ExpectedValidation(st, cc) ==
  IF Tombstoned(st, cc.NodeID) THEN "ErrIDRemoved"
  ELSE IF cc.Type = "AddNode" /\ cc.NodeID \in LiveIDs(st) THEN "ErrIDExists"
  ELSE IF cc.Type \in {"RemoveNode", "UpdateNode"} /\ cc.NodeID \notin LiveIDs(st)
    THEN "ErrIDNotFound"
  ELSE IF cc.Type = "AddNode" /\ UsedByLive(st, LiveIDs(st), cc.Context.PeerURLs)
    THEN "ErrPeerURLexists"
  ELSE IF cc.Type = "UpdateNode"
          /\ UsedByLive(st, LiveIDs(st) \ {cc.NodeID}, cc.Context.PeerURLs)
    THEN "ErrPeerURLexists"
  ELSE "nil"

\* the changes the validation is asked about
ValidateInputs ==
  {ConfChange(0, t, id, urls) :
     t \in {"AddNode", "RemoveNode", "UpdateNode"}, id \in MemberIDs,
     urls \in {{"u1"}, {"u2"}, {"u3"}, {"u1", "u3"}}}

C12_ValidateByStore ==
  membersFromStore(srv.store).ok =>
    \A cc \in ValidateInputs :
      ValidateConfigurationChange(srv.store, cc) = ExpectedValidation(srv.store, cc)

\* changes have been applied; one member is tombstoned, an Update of a live
\* member to its own URL passes and an Update to the URL of another fails
C12_Witness ==
  /\ ~srv.panicked
  /\ srv.cindex > BaseLen
  /\ \E x \in MemberIDs : Tombstoned(srv.store, x)
  /\ \E cc \in ValidateInputs :
       /\ cc.Type = "UpdateNode"
       /\ cc.NodeID \in LiveIDs(srv.store)
       /\ cc.Context.PeerURLs \subseteq LiveURLs(srv.store, cc.NodeID)
       /\ ValidateConfigurationChange(srv.store, cc) = "nil"
  /\ \E cc \in ValidateInputs :
       cc.Type = "UpdateNode" /\ ValidateConfigurationChange(srv.store, cc) = "ErrPeerURLexists"

(***************************************************************************)
(* C13: a committed configuration change that fails validation when it is  *)
(* applied still reaches raft, through exactly one ApplyConfChange whose    *)
(* NodeID is None; the persisted membership, the cluster cache, the peers   *)
(* of the transport and the tracked ConfState stay as they were, the        *)
(* waiter of the change gets the validation error, and the applied index    *)
(* moves on to the index of the entry.                                      *)
(***************************************************************************)
InvalidChange(st, cc) == ValidateConfigurationChange(st, cc) \notin {"nil", "panic"}

\* run handles the batch made of the change alone, at the next index
HandleChange(S, cc) ==
  HandleApply(ClearTrig(S), [snapshot |-> EmptySnapshot,
                             entries |-> <<ConfChangeEntry(S.appliedi + 1, cc)>>])

InvalidChangeIsInert(S, T, cc) ==
  /\ ~T.panicked
  /\ T.confCalls = S.confCalls + 1
  /\ T.confNode = None
  /\ T.raftNodes = S.raftNodes
  /\ T.store = S.store
  /\ T.members = S.members
  /\ T.removed = S.removed
  /\ T.peers = S.peers
  /\ T.confState = S.confState
  /\ T.trig = <<[id |-> cc.ID, err |-> ValidateConfigurationChange(S.store, cc), val |-> ""]>>
  /\ T.appliedi = S.appliedi + 1
  /\ T.rindex = S.appliedi + 1

C13_InvalidChangeInert ==
  ~srv.panicked =>
    \A cc \in ValidateInputs :
      InvalidChange(srv.store, cc) =>
        /\ InvalidChangeIsInert(srv, HandleChange(srv, cc).S, cc)
        /\ ~HandleChange(srv, cc).shouldstop

\* the apply loop has just applied an invalid change of the committed log
C13_Witness ==
  /\ ~srv.panicked
  /\ srv.appliedi > BaseLen
  /\ srv.appliedi = Len(clog)
  /\ clog[srv.appliedi].Type = "EntryConfChange"
  /\ InvalidChange(RefAt(srv.appliedi - 1).store, clog[srv.appliedi].Data)
  /\ srv.confNode = None
  /\ srv.confCalls > 0
  /\ srv.rindex = srv.appliedi

(***************************************************************************)
(* C14: once a valid Remove of the local member has been applied, the      *)
(* server is signalled to stop and run returns in the end, whatever        *)
(* entries follow the Remove in the same batch.                            *)
(***************************************************************************)
C14_SelfRemoveStops == (srv.selfRemoved /\ ~srv.panicked) ~> (~running \/ srv.panicked)

(***************************************************************************)
(* EtcdServer.Process: a raft message from a peer arrives over the         *)
(* transport.                                                              *)
(***************************************************************************)
IsIDRemoved(S, id) == id \in S.removed

\* 403 for a sender the cluster cache holds as removed; s.r.Step otherwise
ProcessCode(S, from) == IF IsIDRemoved(S, from) THEN "403" ELSE "stepped"

Process(from) ==
  /\ running /\ ~srv.panicked
  /\ srv' = [srv EXCEPT !.msg = [from |-> from, code |-> ProcessCode(srv, from),
                                  afterRemove |-> RemoveApplied(from)]]
  /\ UNCHANGED <<running, errorc, delayers, clog, refs, hist>>

NextProcess ==
  \/ NextApply
  \/ \E from \in MemberIDs : Process(from) /\ UNCHANGED notApplyVars

SpecProcess == InitApply /\ [][NextProcess]_vars

(***************************************************************************)
(* C15: on a server where a Remove of x has been applied, a server that    *)
(* joined after the removal included, Process rejects every raft message   *)
(* from x with 403 and does not step it into raft.                         *)
(***************************************************************************)
C15_RemovedSenderRejected == srv.msg.afterRemove => srv.msg.code = "403"

(***************************************************************************)
(* C16: for every Ready the driver loop hands the apply record to the      *)
(* apply loop before it calls Advance, calls Advance once, only after the  *)
(* apply loop has signalled done for that batch, and takes the next Ready  *)
(* only after that Advance.                                                *)
(***************************************************************************)
C16_AdvanceOnceAfterApply ==
  /\ ~rnode.advTwice
  /\ rnode.advanced \subseteq drv.dones
  /\ drv.dones \subseteq drv.handed
  /\ \A m \in 1..rnode.k : (m < rnode.k \/ drv.pc = "select") => m \in rnode.advanced

\* two Readys have gone round the loop
C16_Witness ==
  /\ rnode.k = 2
  /\ rnode.advanced = {1, 2}
  /\ drv.dones = {1, 2}
  /\ drv.pc = "select"

(***************************************************************************)
(* C17: when a Ready carries a snapshot, the snapshot is saved to disk     *)
(* before it is applied to the in-memory mirror, and both happen before    *)
(* the entries of the Ready are appended to the mirror.                    *)
(***************************************************************************)
C17_SnapshotBeforeAppend ==
  /\ stable.msnap \subseteq stable.snap
  /\ \A n \in stable.mem : n \in rnode.withSnap => n \in stable.msnap

\* the entries of a Ready with a snapshot have been appended
C17_Witness ==
  /\ drv.rd.snap /\ drv.rd.ents > 0
  /\ drv.rd.n \in stable.mem
  /\ drv.rd.n \in stable.msnap

(***************************************************************************)
(* C18: Trigger never blocks: whenever a Trigger stands at its send, the   *)
(* channel has room for the value (or is closed, and the send panics).     *)
(***************************************************************************)
C18_TriggerNeverBlocks ==
  \A p \in WaitProcs : wproc[p].pc = "send" => ~SendBlocks(wproc[p].ch)

\* two Triggers stand at their sends at once, nobody having received
C18_Witness ==
  /\ \A p \in WaitProcs : wproc[p].pc = "send"
  /\ \A c \in 1..Len(chans) : chans[c].got = <<>>

(***************************************************************************)
(* C19: every call of Stop made after Start returns in the end, with the   *)
(* done channel closed, in every interleaving: Stop right after Start,     *)
(* before the driver loop has begun, and Stop after the server has stopped *)
(* by itself included.                                                     *)
(***************************************************************************)
C19_StopReturns ==
  \A c \in StopCallers :
    (stoppers[c] \in {"select", "wait"}) ~> (stoppers[c] = "returned" \/ ~Up)

(***************************************************************************)
(* C20: apply is deterministic across members: from the same store the     *)
(* same committed entry leaves every member with the same store, whatever  *)
(* the member's own ID and its in-memory cluster cache: a member whose     *)
(* store is that of the reference member at its applied index, and which   *)
(* was handed no batch of entries it had applied already, applies the next *)
(* entry of the log as the reference member does.                          *)
(***************************************************************************)
\* the member after the apply of the next entry of the committed log
NextApplied == applyEntry(ClearTrig(srv), clog[srv.appliedi + 1]).S

C20_ApplyDeterministic ==
  (/\ ~srv.panicked
   /\ hist.replays = 0
   /\ srv.appliedi < Len(clog)
   /\ srv.store = RefAt(srv.appliedi).store)
    => /\ ~NextApplied.panicked
       /\ NextApplied.store = RefAt(srv.appliedi + 1).store
(***************************************************************************)
(* C21: once an Add ConfChange for a new member has been applied, the id   *)
(* the Cluster reports (Cluster.ID()) is the id genID derives from the     *)
(* member ids now in the cluster: every step of the apply loop in which a  *)
(* new member enters the cache ends with Cluster.id equal to the digest    *)
(* of the sorted ids of the cache.                                         *)
(***************************************************************************)
MemberAdded(S, T) ==
  /\ ~T.panicked
  /\ \E id \in DOMAIN T.members : id \notin DOMAIN S.members

C21_ClusterIDFollowsMembers ==
  [][MemberAdded(srv, srv') => srv'.cid = genID(srv'.members)]_vars

(***************************************************************************)
(* C22: the restart as a standalone node completes for every WAL whose     *)
(* committed entries are requests and configuration changes of type Add,   *)
(* Remove or Update, unless the WAL cannot be written: it does not panic,  *)
(* it keeps exactly the entries up to the commit index, the entries it     *)
(* makes up start right after the commit index, the indices of the         *)
(* resulting log are contiguous from the snapshot on, and the commit index *)
(* becomes the last index of that log.                                     *)
(***************************************************************************)
Committed(wal) == SelectSeq(wal.ents, LAMBDA e : e.Index <= wal.commit)

Contiguous(ents, first) == \A i \in DOMAIN ents : ents[i].Index = first + i - 1

LastIndex(ents, base) == IF ents = <<>> THEN base ELSE ents[Len(ents)].Index

C22_StandaloneRestartCompletes ==
  boot.pc = "done" /\ boot.res.pc # "fatal" =>
    /\ boot.res.pc = "restarted"
    /\ boot.res.kept = Committed(boot.wal)
    /\ boot.res.ents = boot.res.kept \o boot.res.toApp
    /\ boot.res.toApp # <<>> => boot.res.toApp[1].Index = boot.wal.commit + 1
    /\ Contiguous(boot.res.ents, boot.wal.snap.Index + 1)
    /\ boot.res.commit = LastIndex(boot.res.ents, boot.wal.snap.Index)

(***************************************************************************)
(* C23: createConfigChangeEnts(ids, self, term, index) returns one Remove  *)
(* entry for every id of ids other than self, in the order of ids, then    *)
(* one Add entry for self exactly when self is not in ids; every entry     *)
(* carries term, the indices are index+1, index+2, ... without a gap, and  *)
(* no entry removes self.                                                  *)
(***************************************************************************)
Others(ids, self) == SelectSeq(ids, LAMBDA id : id # self)

InIDs(ids, self) == \E i \in DOMAIN ids : ids[i] = self

IsRemoveOf(e, id) ==
  e.Type = "EntryConfChange" /\ e.Data.Type = "RemoveNode" /\ e.Data.NodeID = id

IsAddOf(e, id) ==
  e.Type = "EntryConfChange" /\ e.Data.Type = "AddNode" /\ e.Data.NodeID = id

CreatedAsClaimed(ents, a) ==
  /\ Len(ents) = Len(Others(a.ids, a.self)) + (IF InIDs(a.ids, a.self) THEN 0 ELSE 1)
  /\ \A i \in 1..Len(Others(a.ids, a.self)) : IsRemoveOf(ents[i], Others(a.ids, a.self)[i])
  /\ ~InIDs(a.ids, a.self) => IsAddOf(ents[Len(ents)], a.self)
  /\ \A i \in DOMAIN ents : ents[i].Term = a.term /\ ents[i].Index = a.index + i
  /\ \A i \in DOMAIN ents : ~IsRemoveOf(ents[i], a.self)

C23_ConfigChangeEnts == boot.pc = "created" => CreatedAsClaimed(boot.created, boot.args)

\* self stands between two other ids: two Removes around it, no Add
C23_Witness ==
  /\ boot.pc = "created"
  /\ Len(boot.args.ids) = 3 /\ boot.args.ids[2] = boot.args.self
  /\ Len(boot.created) = 2
  /\ boot.created[2].Index = boot.args.index + 2

(***************************************************************************)
(* C24: publish leaves its loop only after a Do that returned no error     *)
(* (published) or ErrStopped (aborted); after any other error, a timeout   *)
(* included, it is back at the head of the loop for a new attempt; and     *)
(* while the server keeps running and what is proposed is applied, publish *)
(* returns in the end.                                                     *)
(***************************************************************************)
PublishAsClaimed ==
  /\ pub.pc = "published" => calls[pub.call].via = "result" /\ pub.err = "nil"
  /\ pub.pc = "aborted" => calls[pub.call].via = "stopped"
  /\ pub.pc = "loop" /\ pub.attempts > 0 => pub.err \notin {"nil", "ErrStopped"}
  /\ pub.pc \in {"loop", "published", "aborted"} /\ pub.attempts > 0 =>
       calls[pub.call].pc = "returned" /\ pub.err = DoErr(pub.call)

ClaimedConsensus(r) ==
  r.Method \in {"POST", "PUT", "DELETE", "QGET"} \/ (r.Method = "GET" /\ r.Quorum)

ClaimedLocalResult(st, r) ==
  IF r.Method \in {"GET", "HEAD"}
  THEN (IF r.Method = "GET" /\ r.Wait THEN [err |-> "nil", val |-> "Watcher"]
        ELSE IF ~NodeExists(st, r.Path) THEN [err |-> "KeyNotFound", val |-> ""]
        ELSE [err |-> "nil", val |-> IF r.Path \in st.dirs THEN "" ELSE st.nodes[r.Path].val])
  ELSE [err |-> "ErrUnknownMethod", val |-> ""]

\* the step is a call of Do with request r, and new the call it made
DoneAsClaimed(r, new) ==
  IF ClaimedConsensus(r)
  THEN /\ new.pc = "propose" /\ new.ch # 0
       /\ Len(chans') = Len(chans) + 1 /\ wm'[new.id] = new.ch
       /\ new.data.Type = "EntryNormal"
       /\ new.data.Data = [r EXCEPT !.ID = new.id,
                                    !.Method = IF @ = "GET" THEN "QGET" ELSE @]
  ELSE /\ new.pc = "returned" /\ new.ch = 0
       /\ new.res = ClaimedLocalResult(srv.store, r)
       /\ UNCHANGED <<waitVars, srv, clog, pending, driverVars>>

C25_DoDispatch ==
  [][\A r \in DispatchRequests :
       Do(r) => DoneAsClaimed(r, calls'[Len(calls')])]_vars

\* a GET answered with the value that a PUT, sent through consensus and
\* applied, has stored
C25_Witness ==
  \E c, d \in 1..Len(calls) :
    /\ calls[c].via = "local" /\ calls[c].data.Data.Method = "GET"
    /\ calls[c].res = [err |-> "nil", val |-> "a"]
    /\ calls[d].ch # 0 /\ calls[d].data.Data.Method = "PUT" /\ calls[d].via = "result"

(***************************************************************************)
(* C26: AddMember, RemoveMember and UpdateRaftAttributes, when they        *)
(* return, have written the change to the store.  Called with an index at  *)
(* or below the index of the cluster they leave the members, the removed   *)
(* ids, the peers of the transport and the index of the cluster as they    *)
(* were; called with a higher index they also put the change into the      *)
(* cache, hand it to the transport and set the index of the cluster to the *)
(* index given.                                                            *)
(***************************************************************************)
CacheKept(S, T) ==
  /\ T.members = S.members /\ T.removed = S.removed
  /\ T.peers = S.peers /\ T.cindex = S.cindex

RaftAttributesStored(st, id, urls) ==
  /\ MemberRaftAttributesStorePath(id) \in DOMAIN st.nodes
  /\ st.nodes[MemberRaftAttributesStorePath(id)].val = MarshalRaftAttributes(urls)

AddedAsClaimed(S, T, m, index) ==
  /\ RaftAttributesStored(T.store, m.ID, m.PeerURLs)
  /\ index <= S.cindex => CacheKept(S, T)
  /\ index > S.cindex =>
       /\ m.ID \in DOMAIN T.members /\ T.members[m.ID] = m
       /\ \A i \in DOMAIN S.members \ {m.ID} : i \in DOMAIN T.members /\ T.members[i] = S.members[i]
       /\ m.ID \in DOMAIN T.peers
       /\ T.removed = S.removed /\ T.cindex = index

RemovedAsClaimed(S, T, id, index) ==
  /\ ~NodeExists(T.store, memberStoreKey(id))
  /\ removedMemberStoreKey(id) \in DOMAIN T.store.nodes
  /\ index <= S.cindex => CacheKept(S, T)
  /\ index > S.cindex =>
       /\ T.members = CacheDelete(S.members, id)
       /\ T.removed = S.removed \cup {id}
       /\ id \notin DOMAIN T.peers
       /\ T.cindex = index

UpdatedAsClaimed(S, T, id, urls, index) ==
  /\ RaftAttributesStored(T.store, id, urls)
  /\ index <= S.cindex => CacheKept(S, T)
  /\ index > S.cindex =>
       /\ DOMAIN T.members = DOMAIN S.members /\ T.members[id].PeerURLs = urls
       /\ \A i \in DOMAIN S.members \ {id} : T.members[i] = S.members[i]
       /\ id \in DOMAIN S.peers => T.peers[id] = urls
       /\ T.removed = S.removed /\ T.cindex = index

\* the indexes the functions are tried with: up to one above the index of
\* the cluster
ClusterIndexes(S) == 0..(S.cindex + 1)

C26_CacheFollowsIndex ==
  ~srv.panicked =>
    \A id \in MemberIDs, u \in URLs, index \in ClusterIndexes(srv) :
      /\ ~AddMember(srv, NewMember(id, {u}), index).panicked =>
           AddedAsClaimed(srv, AddMember(srv, NewMember(id, {u}), index), NewMember(id, {u}), index)
      /\ ~RemoveMember(srv, id, index).panicked =>
           RemovedAsClaimed(srv, RemoveMember(srv, id, index), id, index)
      /\ ~UpdateRaftAttributes(srv, id, {u}, index).panicked =>
           UpdatedAsClaimed(srv, UpdateRaftAttributes(srv, id, {u}, index), id, {u}, index)

\* a joiner behind the index of its cluster, on which each of the three
\* functions returns at an index below and at an index above that index
C26_Witness ==
  /\ ~srv.panicked /\ srv.id = 2 /\ srv.appliedi = 1 /\ srv.cindex > 2
  /\ ~AddMember(srv, NewMember(3, {"u3"}), 2).panicked
  /\ ~AddMember(srv, NewMember(3, {"u3"}), srv.cindex + 1).panicked
  /\ ~RemoveMember(srv, 1, 2).panicked
  /\ ~RemoveMember(srv, 1, srv.cindex + 1).panicked
  /\ ~UpdateRaftAttributes(srv, 1, {"u3"}, 2).panicked
  /\ ~UpdateRaftAttributes(srv, 1, {"u3"}, srv.cindex + 1).panicked

(***************************************************************************)
(* C27: the index of the cluster never decreases, and in every state it is *)
(* the log index of the last membership event the in-memory view reflects: *)
(* the members of the cache and their peer URLs are those of the cluster   *)
(* after the entry at that index, as a member that applied the log entry   *)
(* by entry holds them in its cache or in its store, also after the view   *)
(* has been reloaded from the store of a snapshot.                         *)
(***************************************************************************)
MembershipView(S) == PeersOf(S.members)

ViewsAt(k) ==
  {MembershipView(RefAt(k)), PeersOf(membersFromStore(RefAt(k).store).members)}

ViewIsAtIndex ==
  ~srv.panicked =>
    /\ srv.cindex <= Len(clog)
    /\ MembershipView(srv) \in ViewsAt(srv.cindex)

C27_ClusterIndexOfView ==
  /\ []ViewIsAtIndex
  /\ [][srv'.cindex >= srv.cindex]_vars

(***************************************************************************)
(* C28: a snapshot is applied only when its index is strictly greater than *)
(* the applied index; with an index at or below it the process aborts      *)
(* before the store is touched.  The applied index never decreases, and    *)
(* after a snapshot is applied the applied index and the snapshot index    *)
(* both equal the index of the snapshot.                                   *)
(***************************************************************************)
SnapshotGuarded(S, snap, T) ==
  IF snap.Index <= S.appliedi
  THEN T.panicked /\ T.store = S.store
  ELSE ~T.panicked => T.appliedi = snap.Index /\ T.snapi = snap.Index

SnapshotAsClaimed ==
  ~srv.panicked =>
    \A k \in 1..Len(clog) :
      ~RefAt(k).panicked =>
        SnapshotGuarded(srv, SnapshotAt(refs, k), RunSnapshot(srv, SnapshotAt(refs, k)))

AppliedNeverDecreases == [][srv'.appliedi >= srv.appliedi]_vars

C28_SnapshotOnlyAhead == []SnapshotAsClaimed /\ AppliedNeverDecreases

(***************************************************************************)
(* The snapshot trigger (SpecSnapshot)                                     *)
(***************************************************************************)
TriggerStep == snp.pc = "trigger" /\ snp'.pc = "select"

LaunchedNow == Len(snp'.tasks) > Len(snp.tasks)

LastTask(tasks) == tasks[Len(tasks)]

\* the decision of one pass over the trigger: the unsigned difference
\* appliedi - snapi against the threshold
TriggerAsClaimed ==
  /\ LaunchedNow <=> Sub64(srv.appliedi, srv.snapi) > SnapCount
  /\ LaunchedNow =>
       /\ srv'.snapi = srv.appliedi
       /\ LastTask(snp'.tasks).snapi = srv.appliedi
       /\ Len(snp'.tasks) = Len(snp.tasks) + 1
  /\ ~LaunchedNow => srv'.snapi = srv.snapi
  /\ srv'.appliedi = srv.appliedi

\* a launch is part of a pass over the trigger, made after the done of the
\* batch in hand was signalled
LaunchAfterDone ==
  LaunchedNow =>
    /\ TriggerStep
    /\ snp.dones = snp.batches
    /\ LastTask(snp'.tasks).batch = snp.batches

\* every batch taken is followed by its done and then by the trigger
BatchThenTrigger ==
  /\ snp.pc = "notify" /\ snp'.pc # "notify" => snp'.pc = "trigger" /\ snp'.dones = snp.dones + 1
  /\ snp.pc = "trigger" /\ snp'.pc # "trigger" => snp'.pc = "select"
  /\ snp'.batches # snp.batches => snp.pc = "select" /\ snp'.pc = "notify"

AtWait == running /\ ~srv.panicked /\ snp.pc = "select"

RetainedBefore(snapi, first) == IF snapi - 1 > first THEN snapi - 1 - first ELSE 0

CompactionAsClaimed(c) ==
  /\ c.saved
  /\ c.compacti = (IF c.snapi > numberOfCatchUpEntries
                   THEN c.snapi - numberOfCatchUpEntries ELSE 1)
  /\ c.compacti >= 1
  /\ c.compacti <= c.snapi
  /\ c.err # "panic"
  /\ RetainedBefore(c.snapi, c.first) <= numberOfCatchUpEntries

\* C30: a snapshot task for index snapi compacts the in-memory log only
\* after the snapshot was saved to disk, and with the index snapi - 5000
\* when snapi > 5000 and 1 otherwise, the subtraction never wrapping; at
\* most the last 5000 entries before snapi are retained.
C30_CompactAfterSave ==
  /\ \A k \in 1..Len(snp.compactions) : CompactionAsClaimed(snp.compactions[k])
  /\ \A i \in 1..Len(snp.tasks) :
       snp.tasks[i].pc = "compact" => snp.tasks[i].snapi \in snp.disk

\* one goroutine has compacted at 1 for a snapshot at or below 5000 and
\* another at snapi - 5000 for a snapshot above it
C30_Witness ==
  /\ Len(snp.compactions) = 2
  /\ snp.compactions[1].snapi <= numberOfCatchUpEntries
  /\ snp.compactions[1].compacti = 1
  /\ snp.compactions[1].err = "nil"
  /\ snp.compactions[2].snapi > numberOfCatchUpEntries + 1
  /\ snp.compactions[2].compacti = snp.compactions[2].snapi - numberOfCatchUpEntries
  /\ snp.compactions[2].err = "nil"
  /\ snp.first = snp.compactions[2].compacti

(***************************************************************************)
(* The id generator again (SpecGen)                                        *)
(***************************************************************************)
MemberByte(id) == id \div Pow2(suffixLen)

Low7(id) == id % Pow2(suffixLen)

CntField(id) == id % Pow2(cntLen)

TsField(id) == Low7(id) \div Pow2(cntLen)

\* C36: every id returned by Next() has the member byte of the generator
\* as its high-order byte; the low 7 bytes are incremented as one counter
\* modulo 2^56, so an overflow of the counter field carries into the
\* timestamp field and an overflow of the suffix wraps without changing
\* the member byte.
C36_MemberByteKept ==
  /\ \A i \in 1..Len(gids) : MemberByte(gids[i]) = MemberByte(gen.prefix)
  /\ \A i \in 1..Len(gids) : gids[i] < WordMod
  /\ Low7(gen.prefix) = 0
  /\ \A i \in 1..(Len(gids) - 1) : Low7(gids[i + 1]) = (Low7(gids[i]) + 1) % Pow2(suffixLen)

\* a generator of member 1 has carried from the counter field into the
\* timestamp field and has wrapped its suffix
C36_Witness ==
  /\ MemberByte(gen.prefix) = 1
  /\ \E i \in 1..(Len(gids) - 1) :
       /\ CntField(gids[i]) = Pow2(cntLen) - 1
       /\ CntField(gids[i + 1]) = 0
       /\ TsField(gids[i + 1]) = TsField(gids[i]) + 1
  /\ \E i \in 1..(Len(gids) - 1) :
       /\ Low7(gids[i]) = Pow2(suffixLen) - 1
       /\ Low7(gids[i + 1]) = 0

(***************************************************************************)
(* applyRequest over every request (SpecApply)                             *)
(***************************************************************************)
HasPrecondition(r) == r.PrevIndex > 0 \/ r.PrevValue # ""

\* the store operation named for a PUT
ClaimedPut(st, r) ==
  IF r.PrevExist = "true" /\ ~HasPrecondition(r) THEN StoreUpdate(st, r.Path, r.Val)
  ELSE IF r.PrevExist = "true"
  THEN StoreCompareAndSwap(st, r.Path, r.PrevValue, r.PrevIndex, r.Val)
  ELSE IF r.PrevExist = "false" THEN StoreCreate(st, r.Path, r.Val)
  ELSE IF HasPrecondition(r)
  THEN StoreCompareAndSwap(st, r.Path, r.PrevValue, r.PrevIndex, r.Val)
  ELSE StoreSet(st, r.Path, r.Val)

\* the one store operation named for a request, with its result;
\* DeleteExpiredKeys finds nothing to expire in a store without TTLs
ClaimedOperation(st, r) ==
  CASE r.Method = "POST" -> StoreCreateUnique(st, r.Path, r.Val)
    [] r.Method = "PUT" -> ClaimedPut(st, r)
    [] r.Method = "DELETE" ->
         IF HasPrecondition(r)
         THEN StoreCompareAndDelete(st, r.Path, r.PrevValue, r.PrevIndex)
         ELSE StoreDelete(st, r.Path, r.Dir, r.Recursive)
    [] r.Method = "QGET" -> StoreGet(st, r.Path)
    [] r.Method = "SYNC" -> Ok(st, "")
    [] OTHER -> Fail(st, "ErrUnknownMethod")

RequestAsClaimed(a, c) ==
  ~a.S.panicked => a.S.store = c.st /\ a.err = c.err /\ a.val = c.val

ApplyMethods == {"POST", "PUT", "DELETE", "QGET", "SYNC", "GET", "PATCH"}

ApplyPaths ==
  {StoreKeysPrefix \o <<"k">>, StoreKeysPrefix \o <<"j">>, MemberAttributesStorePath(1)}

ApplyRequests ==
  {[Request(0, m, p, v) EXCEPT !.PrevExist = pe, !.PrevIndex = pi, !.PrevValue = pv] :
     m \in ApplyMethods, p \in ApplyPaths, v \in {"b", MarshalAttributes("n1")},
     pe \in {"unset", "true", "false"}, pi \in {0, 1}, pv \in {"", "a"}}

\* C32: applyRequest maps every request to exactly one store operation:
\* POST to unique Create; PUT to Update, CompareAndSwap, Create or Set by
\* PrevExist and the precondition; DELETE to CompareAndDelete or Delete;
\* QGET to Get; SYNC to DeleteExpiredKeys; any other method to the unknown
\* method error and no store operation.
C32_RequestDispatch ==
  ~srv.panicked =>
    \A r \in ApplyRequests :
      RequestAsClaimed(applyRequest(srv, r), ClaimedOperation(srv.store, r))

\* a store that holds the key with the value of the precondition, on which
\* the operations of a PUT give five different answers
C32_Witness ==
  /\ ~srv.panicked
  /\ NodeExists(srv.store, StoreKeysPrefix \o <<"k">>)
  /\ srv.store.nodes[StoreKeysPrefix \o <<"k">>].val = "a"
  /\ ~NodeExists(srv.store, StoreKeysPrefix \o <<"j">>)
  /\ applyRequest(srv, [Request(0, "PUT", StoreKeysPrefix \o <<"k">>, "b") EXCEPT
                          !.PrevExist = "false", !.PrevValue = "a"]).err = "NodeExist"
  /\ applyRequest(srv, [Request(0, "PUT", StoreKeysPrefix \o <<"j">>, "b") EXCEPT
                          !.PrevExist = "true"]).err = "KeyNotFound"
  /\ applyRequest(srv, [Request(0, "PUT", StoreKeysPrefix \o <<"k">>, "b") EXCEPT
                          !.PrevValue = "b"]).err = "TestFailed"
  /\ applyRequest(srv, Request(0, "PUT", StoreKeysPrefix \o <<"j">>, "b")).err = "nil"
  /\ applyRequest(srv, Request(0, "PATCH", StoreKeysPrefix \o <<"k">>, "b")).err = "ErrUnknownMethod"

(***************************************************************************)
(* The attribute PUT (SpecApply)                                           *)
(***************************************************************************)
\* the path is exactly /0/members/<id>/attributes
IsAttributePath(p) == \E id \in MemberIDs : p = MemberAttributesStorePath(id)

\* the paths a PUT is tried with: the attributes key of a member, the same
\* segments under the prefix of the user keys, the same segments followed
\* by one more, and a user key
AttributePaths ==
  {MemberAttributesStorePath(1),
   StoreKeysPrefix \o MemberAttributesStorePath(1),
   MemberAttributesStorePath(1) \o <<"x">>,
   StoreKeysPrefix \o <<"k">>}

AttributePuts ==
  {Request(0, "PUT", p, v) : p \in AttributePaths, v \in {MarshalAttributes("n1"), "b"}}

\* the PUT went through Cluster.UpdateAttributes: the cache has changed, or
\* the process has ended in the unmarshalling, the parsing of the id or the
\* update
TreatedAsAttributes(S, a) == a.S.panicked \/ a.S.members # S.members

\* C33: during apply a PUT is treated as a member attribute update only
\* when its path is exactly /0/members/<1 to 16 hex digits>/attributes; a
\* path that contains such a segment, or has more before or after it, is
\* never treated as one.
C33_AttributePathExact ==
  ~srv.panicked =>
    \A r \in AttributePuts :
      TreatedAsAttributes(srv, applyRequest(srv, r)) => IsAttributePath(r.Path)

\* the next entry of the committed log is a PUT that applyRequest hands to
\* Cluster.UpdateAttributes
NextEntry == clog[srv.appliedi + 1]

NextIsAttributePut ==
  /\ srv.appliedi < Len(clog)
  /\ NextEntry.Type = "EntryNormal"
  /\ NextEntry.Data.Method = "PUT"
  /\ NextEntry.Data.PrevExist = "unset"
  /\ NextEntry.Data.PrevIndex = 0 /\ NextEntry.Data.PrevValue = ""
  /\ MatchMemberAttribute(NextEntry.Data.Path)
  /\ UnmarshalAttributes(NextEntry.Data.Val).ok

\* C38: during apply Cluster.UpdateAttributes is only ever invoked for a
\* member id that is in the members map at that moment, also for an
\* attribute PUT committed after the Remove of the same member and for one
\* naming an id that was never added.
C38_UpdateOnlyPresent ==
  (~srv.panicked /\ hist.replays = 0 /\ NextIsAttributePut) =>
    mustParseMemberIDFromKey(PathDir(NextEntry.Data.Path)) \in DOMAIN srv.members



(***************************************************************************)
(* Ready and Advance alternate                                             *)
(***************************************************************************)
\* a Ready is delivered in this step
ReadyStep == nd'.readys = nd.readys + 1

\* as many Advances as Readys, or one Advance outstanding
AdvanceOutstanding == nd.readys = nd.advs + 1

ReadyAdvancePaired ==
  /\ nd.readys \in {nd.advs, nd.advs + 1}
  /\ nd.advancec <=> AdvanceOutstanding

\* while an Advance is outstanding node.run takes what the callers send on
\* tickc, recvc, confc and (with a leader known) propc, and offers no Ready
TakesWhileOutstanding ==
  (AtSelect /\ AdvanceOutstanding) =>
    /\ ~ReadyOffered(nd)
    /\ \A c \in NodeCallers :
         /\ Sends(c, "tickc") => ENABLED NodeTick(c, None, FALSE)
         /\ Sends(c, "recvc") => ENABLED NodeRecv(c, None, FALSE)
         /\ Sends(c, "confc") => ENABLED NodeConf(c)
         /\ (Sends(c, "propc") /\ nd.propc) => ENABLED NodeProp(c)

\* C34: the node never delivers a second Ready before the Advance for the
\* previous one: a Ready is delivered only when every earlier Ready has its
\* Advance, exactly one Advance lies between two consecutive Readys, and
\* while an Advance is outstanding the node still takes ticks, messages,
\* proposals and configuration changes without offering a Ready.
C34_ReadyAdvanceAlternate ==
  /\ [](ReadyAdvancePaired /\ TakesWhileOutstanding)
  /\ [][ReadyStep => (nd.readys = nd.advs /\ nd'.readys = nd'.advs + 1)]_vars

\* a second Ready is outstanding after one Advance, and a tick and a
\* proposal were taken meanwhile
C34_Witness ==
  /\ nd.readys = 2 /\ nd.advs = 1 /\ nd.advancec
  /\ ncalls[1].m = "Tick" /\ ncalls[1].pc = "returned" /\ ncalls[1].out
  /\ ncalls[2].m = "Propose" /\ ncalls[2].res = "nil" /\ ncalls[2].out

(***************************************************************************)
(* Proposals after the node removed itself                                 *)
(***************************************************************************)
\* caller c has in hand a proposal it made after run processed the Remove
\* of the node's own id
ProposedAfterRemove(c) == ncalls[c].afterRemove /\ IsProposal(ncalls[c])

\* the proposal caller c has in hand was handed to r.Step
SteppedNow(c) == <<c, ncalls[c].k>> \in nd.stepped

\* C35: after the node has processed an ApplyConfChange that removes its
\* own id, no later Propose or ProposeConfChange is accepted: the call
\* returns only with the error of its context or with ErrStopped, and its
\* data is never handed to the raft state machine.
C35_NoProposalAfterRemove ==
  \A c \in NodeCallers :
    ProposedAfterRemove(c) =>
      /\ ncalls[c].res \in {"none", "ctx", "ErrStopped"}
      /\ ~SteppedNow(c)

(***************************************************************************)
(* The methods of a stopped node                                           *)
(***************************************************************************)
\* caller c is inside a method of the node
InCall(c) == ncalls[c].pc \in {"select", "recv"}

\* Propose, ProposeConfChange, Step and Campaign
ReturnsError(k) == k.m \in {"Propose", "ProposeConfChange", "Step", "Campaign"}

\* a call of these made on a stopped node returns ErrStopped or ctx.Err()
StoppedError(c) ==
  (ncalls[c].afterStop /\ ReturnsError(ncalls[c]) /\ ncalls[c].pc = "returned")
    => ncalls[c].res \in {"ErrStopped", "ctx"}

\* C40: once the node is stopped every call of its API returns: Propose,
\* ProposeConfChange, Step and Campaign return ErrStopped or the error of
\* the context, and Tick, Advance, ApplyConfChange, ReportUnreachable,
\* ReportSnapshot, Status and a repeated Stop return as well.
C40_StoppedNodeReturns ==
  /\ [](\A c \in NodeCallers : StoppedError(c))
  /\ \A c \in NodeCallers : (nd.stopped /\ InCall(c)) ~> (ncalls[c].pc = "returned")

(***************************************************************************)
(* The snapshot goroutines beside the driver                               *)
(***************************************************************************)
Tasks == 1..Len(snp.tasks)

\* C37: whenever a snapshot is triggered at applied index a, the driver has
\* finished persisting and appending the entries of the batch: the last
\* index of the raft storage is at least a from the launch of the goroutine
\* until it has called CreateSnapshot at a, under every interleaving with
\* the driver.
C37_StoredBeforeCreate ==
  \A i \in Tasks : snp.tasks[i].pc = "create" => snp.tasks[i].snapi <= snp.stored

\* a goroutine has not yet called CreateSnapshot while the driver is busy
\* with the writes of a later batch
C37_Witness ==
  \E i \in Tasks :
    /\ snp.tasks[i].pc = "create"
    /\ snp.drv = "writes" /\ snp.last > snp.stored
    /\ snp.batches > snp.tasks[i].batch
    /\ hist.replays = 0

\* the goroutine wrote no snapshot file and compacted nothing
LeftNoTrace(t) == ~t.saved /\ ~t.compacted

\* C31: the snapshot goroutines, running beside each other and beside the
\* driver, never end the process because of a race: a goroutine that finds
\* a newer snapshot in the raft storage returns without writing a snapshot
\* file and without compacting, one that finds the log compacted already
\* returns without error, and the process ends only on a failed SaveSnap.
C31_TasksNeverAbort ==
  /\ \A i \in Tasks :
       /\ snp.tasks[i].err # "panic"
       /\ snp.tasks[i].err = "ErrSnapOutOfDate" =>
            snp.tasks[i].pc = "end" /\ LeftNoTrace(snp.tasks[i])
       /\ snp.tasks[i].err = "ErrCompacted" => snp.tasks[i].pc = "end"
  /\ snp.fatal => \E i \in Tasks : snp.tasks[i].err = "SaveSnap"

\* a goroutine found a newer snapshot after the later goroutine had saved
\* its own and compacted
C31_Witness ==
  \E i \in Tasks, j \in Tasks :
    /\ snp.tasks[i].err = "ErrSnapOutOfDate"
    /\ snp.tasks[j].pc = "end" /\ snp.tasks[j].err = "nil"
    /\ ~snp.fatal /\ hist.replays = 0

====
